---- MODULE Spec2Model ----
(***************************************************************************)
(* A model of the LinkedIn job scraper: the date normalizer                *)
(* (parse_posted_date), the schema normalizer and validator                *)
(* (clean_and_validate_job_data, validate_job_data), the application       *)
(* enricher (enrich_job_data_for_application) and the job-file store       *)
(* written by the export path and the application tracker.                 *)
(*                                                                         *)
(* Python strings are TLA+ strings; Python values that may be None, a      *)
(* string, a list or an int are tagged records.                            *)
(***************************************************************************)
EXTENDS Integers, Sequences, FiniteSets, TLC

VARIABLES
    posted_text,   \* the argument of parse_posted_date
    now,           \* datetime.datetime.now() of the running call
    date_result,   \* what parse_posted_date returned or raised
    job_data,      \* the record in memory: raw, or as scrape_linkedin_job returned it
    clean_result,  \* what clean_and_validate_job_data returned or raised
    valid_result,  \* what validate_job_data returned for job_data
    enriched,      \* what the successive calls of enrich_job_data_for_application returned
    job_files,     \* the output directory: file name -> the record stored in the file
    output_json,   \* the records in the output file, <<>> while there is none
    jobs_index,    \* jobs_index.json of the output directory
    tracker_ops,   \* how many tracking operations have run
    pc,            \* where the run of main is: "idle", "scraped" or "saved"
    calls,         \* the tracking calls made on the job file, the last one last
    job_ids,       \* what extract_job_ids_from_search returned to process_search_results
    attempted,     \* the ids scrape_linkedin_job was called for, in the order of the calls
    all_jobs_data, \* all_jobs_data of process_search_results
    valid_jobs_data, \* valid_jobs_data of process_search_results
    batch_return,  \* what process_search_results returned
    payload,       \* the argument of extract_data_from_api_response
    extract_result, \* what extract_data_from_api_response returned or raised
    max_retries,   \* the argument of make_request_with_backoff
    replies,       \* what requests.get gave to make_request_with_backoff, in order
    fetch_result,  \* what make_request_with_backoff returned
    run_input,     \* the company name two runs of the program extract, and the path taken
    runs,          \* the two runs: the hash of the name in each and the Poster Id it gave
    main_input,    \* the command line and the environment main is started with
    main_mode,     \* what main went on to do: "single", "search" or "exit 1"
    search_input,  \* max_jobs and is_guest_api of one extract_job_ids_from_search
    page_num,      \* its page counter
    jobs_found,    \* its counter of collected ids
    consecutive_empty_pages  \* its count of pages in a row that added no id

vars == <<posted_text, now, date_result, job_data, clean_result, valid_result, enriched,
          job_files, output_json, jobs_index, tracker_ops, pc, calls, job_ids, attempted,
          all_jobs_data, valid_jobs_data, batch_return, payload, extract_result,
          max_retries, replies, fetch_result, run_input, runs,
          main_input, main_mode, search_input, page_num, jobs_found,
          consecutive_empty_pages>>
dateVars == <<posted_text, date_result>>
cleanVars == <<job_data, clean_result, valid_result>>
storeVars == <<job_files, output_json, jobs_index, tracker_ops, pc>>
trackVars == <<calls>>
batchVars == <<job_ids, attempted, all_jobs_data, valid_jobs_data, batch_return>>
extractVars == <<payload, extract_result>>
fetchVars == <<max_retries, replies, fetch_result>>
runVars == <<run_input, runs>>
mainVars == <<main_input, main_mode>>
searchVars == <<search_input, page_num, jobs_found, consecutive_empty_pages>>
elseVars == <<runVars, mainVars, searchVars>>
otherVars == <<batchVars, extractVars, fetchVars, elseVars>>
restVars == <<trackVars, otherVars>>

(***************************************************************************)
(* Strings                                                                 *)
(***************************************************************************)
\* s[i:i+1]: the character at position i, "" outside the string
Char(s, i) == IF i >= 1 /\ i <= Len(s) THEN SubSeq(s, i, i) ELSE ""

Uppers == "ABCDEFGHIJKLMNOPQRSTUVWXYZ"
Lowers == "abcdefghijklmnopqrstuvwxyz"
Digits == "0123456789"

UpperSet == {Char(Uppers, i) : i \in 1..Len(Uppers)}
LowerSet == {Char(Lowers, i) : i \in 1..Len(Lowers)}
DigitSet == {Char(Digits, i) : i \in 1..Len(Digits)}
LowerOf == [c \in UpperSet |-> Char(Lowers, CHOOSE i \in 1..Len(Uppers) : Char(Uppers, i) = c)]
DigitValOf == [c \in DigitSet |-> (CHOOSE i \in 1..Len(Digits) : Char(Digits, i) = c) - 1]

IsDigit(c) == c \in DigitSet
IsSpace(c) == c \in {" ", "\t", "\n"}
IsLetter(c) == c \in LowerSet \/ c \in UpperSet
IsWordChar(c) == IsLetter(c) \/ IsDigit(c) \/ c = "_"

LowerChar(c) == IF c \in UpperSet THEN LowerOf[c] ELSE c

RECURSIVE LowerFrom(_, _)
LowerFrom(s, i) == IF i > Len(s) THEN "" ELSE LowerChar(Char(s, i)) \o LowerFrom(s, i + 1)

\* str.lower()
Lower(s) == LowerFrom(s, 1)

\* Python's `t in s` on strings
Contains(s, t) == \E i \in 1..(Len(s) - Len(t) + 1) : SubSeq(s, i, i + Len(t) - 1) = t

\* the literal lit occurs in s at position i
StartsAt(s, i, lit) == i >= 1 /\ i + Len(lit) - 1 <= Len(s) /\ SubSeq(s, i, i + Len(lit) - 1) = lit

\* the last position of the longest run of characters satisfying P that
\* starts at i (i - 1 when the run is empty): a greedy \d+, a greedy \s+
RECURSIVE DigitRunEnd(_, _)
DigitRunEnd(s, i) == IF IsDigit(Char(s, i)) THEN DigitRunEnd(s, i + 1) ELSE i - 1

RECURSIVE SpaceRunEnd(_, _)
SpaceRunEnd(s, i) == IF IsSpace(Char(s, i)) THEN SpaceRunEnd(s, i + 1) ELSE i - 1

\* str.strip()
Strip(s) ==
    LET keep == {i \in 1..Len(s) : ~IsSpace(Char(s, i))}
    IN  IF keep = {} THEN ""
        ELSE SubSeq(s, CHOOSE i \in keep : \A k \in keep : i <= k,
                       CHOOSE j \in keep : \A k \in keep : j >= k)

DigitVal(c) == DigitValOf[c]

\* int(s) of a run of decimal digits. Python's integers are unbounded: every
\* value above HugeInt stands for itself and all larger ones, which the
\* callers treat alike (they exceed every range the value is compared with).
HugeInt == 1000000000
RECURSIVE ToInt(_)
ToInt(s) ==
    IF s = "" THEN 0
    ELSE LET head == ToInt(SubSeq(s, 1, Len(s) - 1))
         IN  IF head >= HugeInt \div 10 THEN HugeInt
             ELSE 10 * head + DigitVal(Char(s, Len(s)))

DigitChar(n) == Char(Digits, n + 1)
Pad2(n) == DigitChar(n \div 10) \o DigitChar(n % 10)
Pad4(n) == Pad2(n \div 100) \o Pad2(n % 100)

Min(S) == CHOOSE x \in S : \A y \in S : x <= y

(***************************************************************************)
(* datetime: a proleptic Gregorian day ordinal and the second of the day   *)
(***************************************************************************)
IsLeap(y) == y % 4 = 0 /\ (y % 100 # 0 \/ y % 400 = 0)

DaysInMonth(y, m) ==
    IF m = 2 THEN (IF IsLeap(y) THEN 29 ELSE 28)
    ELSE IF m \in {4, 6, 9, 11} THEN 30 ELSE 31

\* datetime.datetime(year, month, day) accepts the date (ValueError otherwise)
ValidDate(y, m, d) == y >= 1 /\ y <= 9999 /\ m \in 1..12 /\ d >= 1 /\ d <= DaysInMonth(y, m)

RECURSIVE DaysBeforeMonth(_, _)
DaysBeforeMonth(y, m) == IF m = 1 THEN 0 ELSE DaysBeforeMonth(y, m - 1) + DaysInMonth(y, m - 1)

DaysBeforeYear(y) ==
    (y - 1) * 365 + ((y - 1) \div 4) - ((y - 1) \div 100) + ((y - 1) \div 400)

Ymd2Ord(y, m, d) == DaysBeforeYear(y) + DaysBeforeMonth(y, m) + d

\* the calendar date of a day ordinal
Ord2Ymd(n) ==
    LET y == CHOOSE yy \in ((n - 1) \div 366 + 1)..((n - 1) \div 365 + 1) :
                 DaysBeforeYear(yy) < n /\ n <= DaysBeforeYear(yy + 1)
        r == n - DaysBeforeYear(y)
        m == CHOOSE mm \in 1..12 :
                 DaysBeforeMonth(y, mm) < r /\ r <= DaysBeforeMonth(y, mm) + DaysInMonth(y, mm)
    IN  [year |-> y, month |-> m, day |-> r - DaysBeforeMonth(y, m)]

MinOrdinal == Ymd2Ord(1, 1, 1)
MaxOrdinal == Ymd2Ord(9999, 12, 31)
\* the largest day count a timedelta holds
MaxDeltaDays == 999999999

DateTime(y, m, d, s) == [ord |-> Ymd2Ord(y, m, d), sec |-> s]

\* datetime.isoformat() of a datetime whose microsecond is 0
IsoFormat(dt) ==
    LET c == Ord2Ymd(dt.ord)
    IN  Pad4(c.year) \o "-" \o Pad2(c.month) \o "-" \o Pad2(c.day) \o "T"
        \o Pad2(dt.sec \div 3600) \o ":" \o Pad2((dt.sec \div 60) % 60) \o ":" \o Pad2(dt.sec % 60)

Returned(v) == [raised |-> FALSE, exc |-> "", value |-> v]
Raised(e) == [raised |-> TRUE, exc |-> e, value |-> ""]

\* (dt - datetime.timedelta(days=unit * n)).isoformat(): the timedelta and
\* the subtraction raise OverflowError outside their ranges
MinusIso(dt, n, unit) ==
    IF n > MaxDeltaDays \div unit
    THEN Raised("OverflowError")
    ELSE IF dt.ord - unit * n < MinOrdinal \/ dt.ord - unit * n > MaxOrdinal
    THEN Raised("OverflowError")
    ELSE Returned(IsoFormat([ord |-> dt.ord - unit * n, sec |-> dt.sec]))

MinusDaysIso(dt, n) == MinusIso(dt, n, 1)

AllDigits(s) == \A k \in 1..Len(s) : IsDigit(Char(s, k))

\* datetime.fromisoformat(s) accepts s: 'YYYY-MM-DD' or 'YYYY-MM-DDTHH:MM:SS',
\* the latter also with a UTC offset '+HH:MM'
FromIsoFormatOk(s) ==
    /\ Len(s) \in {10, 19, 25}
    /\ Len(s) = 25 =>
          /\ Char(s, 20) \in {"+", "-"}
          /\ AllDigits(SubSeq(s, 21, 22)) /\ Char(s, 23) = ":"
          /\ AllDigits(SubSeq(s, 24, 25))
          /\ ToInt(SubSeq(s, 21, 22)) < 24
          /\ ToInt(SubSeq(s, 24, 25)) < 60
    /\ AllDigits(SubSeq(s, 1, 4)) /\ Char(s, 5) = "-"
    /\ AllDigits(SubSeq(s, 6, 7)) /\ Char(s, 8) = "-"
    /\ AllDigits(SubSeq(s, 9, 10))
    /\ ValidDate(ToInt(SubSeq(s, 1, 4)), ToInt(SubSeq(s, 6, 7)), ToInt(SubSeq(s, 9, 10)))
    /\ Len(s) >= 19 =>
          /\ Char(s, 11) \in {"T", " "}
          /\ AllDigits(SubSeq(s, 12, 13)) /\ Char(s, 14) = ":"
          /\ AllDigits(SubSeq(s, 15, 16)) /\ Char(s, 17) = ":"
          /\ AllDigits(SubSeq(s, 18, 19))
          /\ ToInt(SubSeq(s, 12, 13)) < 24
          /\ ToInt(SubSeq(s, 15, 16)) < 60
          /\ ToInt(SubSeq(s, 18, 19)) < 60

(***************************************************************************)
(* Python values and job records                                           *)
(***************************************************************************)
None_ == [t |-> "None"]
Absent == [t |-> "absent"]          \* the key is not in the dictionary
Str(s) == [t |-> "str", v |-> s]
List(q) == [t |-> "list", v |-> q]
IntVal(n) == [t |-> "int", v |-> n]
Bool(b) == [t |-> "bool", v |-> b]
Dict(r) == [t |-> "dict", v |-> r]

IsStr(x) == x.t = "str"
IsList(x) == x.t = "list"
IsInt(x) == x.t = "int"

\* bool(x)
Truthy(x) ==
    CASE x.t = "str" -> x.v # ""
      [] x.t = "list" -> x.v # <<>>
      [] x.t = "int" -> x.v # 0
      [] x.t = "bool" -> x.v
      [] x.t = "dict" -> TRUE
      [] OTHER -> FALSE

\* d.get(f): None for a missing key
Get(d, f) == IF d[f] = Absent THEN None_ ELSE d[f]
\* d.get(f, ""): the default only for a missing key
GetOr(d, f, default) == IF d[f] = Absent THEN default ELSE d[f]
\* f in d
Has(d, f) == d[f] # Absent
\* d[f] = x
Put(d, f, x) == [d EXCEPT ![f] = x]

RequiredFields == <<"Title", "Description", "Primary Description", "Detail URL", "Location",
                    "Poster Id", "Company Name", "Created At", "ScrapedAt">>
RequiredStringFields == <<"Title", "Description", "Primary Description", "Detail URL",
                          "Location", "Poster Id", "Company Name">>
NullableStringFields == <<"Company Logo", "Company Apply Url", "Company Website", "Industry",
                          "Job State", "Hiring Manager Title", "Hiring Manager Subtitle",
                          "Hiring Manager Title Insight", "Hiring Manager Profile",
                          "Hiring Manager Image">>
ArrayFields == <<"Skill", "Insight", "Specialties">>
NumericFields == <<"Employee Count", "Company Founded">>
DateFields == <<"Created At", "ScrapedAt">>

Range(q) == {q[i] : i \in 1..Len(q)}

\* the keys of a job record: the properties of SCHEMA, the two objects the
\* enricher adds and the one save_claude_response adds
Fields == Range(RequiredFields) \cup Range(NullableStringFields) \cup Range(ArrayFields)
          \cup Range(NumericFields) \cup {"Company Description", "Headquarters"}
          \cup {"Application", "Relevance", "Claude"}

NoJob == [f \in Fields |-> Absent]

\* create_empty_job_data()
EmptyJobData ==
    [f \in Fields |->
        IF f \in {"Title", "Description", "Primary Description", "Detail URL", "Location",
                  "Poster Id", "Company Name"} THEN Str("")
        ELSE IF f \in {"Company Description", "Headquarters", "Application", "Relevance",
                       "Claude"}
        THEN Absent
        ELSE None_]

ReturnedJob(r) == [raised |-> FALSE, exc |-> "", value |-> r]
RaisedJob(e) == [raised |-> TRUE, exc |-> e, value |-> NoJob]

(***************************************************************************)
(* parse_posted_date                                                       *)
(***************************************************************************)
\* where `word\s+` matched at i ends, 0 when it does not match there
PrefixEnd(t, i, word) ==
    IF StartsAt(t, i, word) /\ SpaceRunEnd(t, i + Len(word)) >= i + Len(word)
    THEN SpaceRunEnd(t, i + Len(word))
    ELSE 0

\* re.sub(r'^posted\s+|pubblicato\s+', '', s, flags=re.IGNORECASE), from i on;
\* t is s lowercased
RECURSIVE SubPrefixes(_, _, _)
SubPrefixes(s, t, i) ==
    IF i > Len(s) THEN ""
    ELSE IF i = 1 /\ PrefixEnd(t, i, "posted") > 0
         THEN SubPrefixes(s, t, PrefixEnd(t, i, "posted") + 1)
    ELSE IF PrefixEnd(t, i, "pubblicato") > 0
         THEN SubPrefixes(s, t, PrefixEnd(t, i, "pubblicato") + 1)
    ELSE Char(s, i) \o SubPrefixes(s, t, i + 1)

CleanText(posted_text_) == Strip(SubPrefixes(posted_text_, Lower(posted_text_), 1))

\* r'(\d+)\s+<unit>[s]?\s+ago' matches the lowercased text t at i
AgoAt(t, i, unit) ==
    LET d == DigitRunEnd(t, i)
        w == SpaceRunEnd(t, d + 1)
        u == w + Len(unit) + (IF Char(t, w + Len(unit) + 1) = "s" THEN 1 ELSE 0)
        w2 == SpaceRunEnd(t, u + 1)
    IN  /\ d >= i
        /\ w >= d + 1
        /\ StartsAt(t, w + 1, unit)
        /\ w2 >= u + 1
        /\ StartsAt(t, w2 + 1, "ago")

AgoMatches(t, unit) == {i \in 1..Len(t) : AgoAt(t, i, unit)}

\* int(match.group(1)) of re.search: the leftmost match
AgoNumber(t, unit) ==
    LET i == Min(AgoMatches(t, unit)) IN ToInt(SubSeq(t, i, DigitRunEnd(t, i)))

\* r'\b<word>\b' matches the lowercased text t somewhere
HasWord(t, word) ==
    \E i \in 1..Len(t) :
        /\ StartsAt(t, i, word)
        /\ (i = 1 \/ ~IsWordChar(Char(t, i - 1)))
        /\ (i + Len(word) > Len(t) \/ ~IsWordChar(Char(t, i + Len(word))))

\* r'([a-z]{3})\s+(\d{1,2}),?\s+(\d{4})' matches the lowercased text t at i
DateAt(t, i) ==
    LET w == SpaceRunEnd(t, i + 3)
        d == DigitRunEnd(t, w + 1)
        c == IF Char(t, d + 1) = "," THEN d + 1 ELSE d
        w2 == SpaceRunEnd(t, c + 1)
    IN  /\ i + 2 <= Len(t)
        /\ \A k \in i..(i + 2) : IsLetter(Char(t, k))
        /\ w >= i + 3
        /\ d - w \in {1, 2}
        /\ w2 >= c + 1
        /\ w2 + 4 <= Len(t)
        /\ \A k \in (w2 + 1)..(w2 + 4) : IsDigit(Char(t, k))

DateMatches(t) == {i \in 1..Len(t) : DateAt(t, i)}

\* date_match.groups() of the leftmost match
DateGroups(t) ==
    LET i == Min(DateMatches(t))
        w == SpaceRunEnd(t, i + 3)
        d == DigitRunEnd(t, w + 1)
        c == IF Char(t, d + 1) = "," THEN d + 1 ELSE d
        w2 == SpaceRunEnd(t, c + 1)
    IN  [month |-> SubSeq(t, i, i + 2), day |-> SubSeq(t, w + 1, d),
         year |-> SubSeq(t, w2 + 1, w2 + 4)]

MonthNames == <<"jan", "feb", "mar", "apr", "may", "jun",
                "jul", "aug", "sep", "oct", "nov", "dec">>
ItalianMonths == [gen |-> 1, mag |-> 5, giu |-> 6, lug |-> 7, ago |-> 8,
                  set |-> 9, ott |-> 10, dic |-> 12]

InMonthTable(name) ==
    (\E k \in 1..12 : MonthNames[k] = name) \/ name \in DOMAIN ItalianMonths

\* month_mapping.get(month_str.lower(), 1)
MonthOf(name) ==
    IF \E k \in 1..12 : MonthNames[k] = name
    THEN CHOOSE k \in 1..12 : MonthNames[k] = name
    ELSE IF name \in DOMAIN ItalianMonths THEN ItalianMonths[name]
    ELSE 1

\* the variant that tests the just now/appena keywords before yesterday/ieri
ParsePostedDate_JustNowFirst(posted_text_, now_) ==
    LET t == Lower(CleanText(posted_text_))
    IN  IF AgoMatches(t, "day") # {} THEN MinusDaysIso(now_, AgoNumber(t, "day"))
        ELSE IF AgoMatches(t, "week") # {} THEN MinusIso(now_, AgoNumber(t, "week"), 7)
        ELSE IF AgoMatches(t, "month") # {} THEN MinusIso(now_, AgoNumber(t, "month"), 30)
        ELSE IF HasWord(t, "today") \/ HasWord(t, "oggi") THEN Returned(IsoFormat(now_))
        ELSE IF HasWord(t, "just now") \/ HasWord(t, "appena") THEN Returned(IsoFormat(now_))
        ELSE IF HasWord(t, "yesterday") \/ HasWord(t, "ieri") THEN MinusDaysIso(now_, 1)
        ELSE LET g == DateGroups(t)
             IN  IF /\ DateMatches(t) # {}
                    /\ ValidDate(ToInt(g.year), MonthOf(g.month), ToInt(g.day))
                 THEN Returned(IsoFormat(DateTime(ToInt(g.year), MonthOf(g.month), ToInt(g.day), 0)))
                 ELSE MinusDaysIso(now_, 30)

ParsePostedDate(posted_text_, now_) ==
    LET t == Lower(CleanText(posted_text_))
    IN  IF AgoMatches(t, "day") # {} THEN MinusDaysIso(now_, AgoNumber(t, "day"))
        ELSE IF AgoMatches(t, "week") # {} THEN MinusIso(now_, AgoNumber(t, "week"), 7)
        ELSE IF AgoMatches(t, "month") # {} THEN MinusIso(now_, AgoNumber(t, "month"), 30)
        ELSE IF HasWord(t, "today") \/ HasWord(t, "oggi") THEN Returned(IsoFormat(now_))
        ELSE IF HasWord(t, "yesterday") \/ HasWord(t, "ieri") THEN MinusDaysIso(now_, 1)
        ELSE IF HasWord(t, "just now") \/ HasWord(t, "appena") THEN Returned(IsoFormat(now_))
        ELSE LET g == DateGroups(t)
             IN  IF /\ DateMatches(t) # {}
                    /\ ValidDate(ToInt(g.year), MonthOf(g.month), ToInt(g.day))
                 THEN Returned(IsoFormat(DateTime(ToInt(g.year), MonthOf(g.month), ToInt(g.day), 0)))
                 ELSE MinusDaysIso(now_, 30)

(***************************************************************************)
(* The date normalizer run on one text                                     *)
(***************************************************************************)
MaxPieces == 2

Pieces == {"Posted ", "pubblicato ", "3", "800000", " days ago", " weeks ago", " month ago",
           "today ", "ieri ", "just now ", "Mar 15, 2023", "March 5 2024", "Feb 30, 2023",
           "Mar 15, 0000", "garbage "}

RECURSIVE TextsOf(_)
TextsOf(k) == IF k = 0 THEN {""} ELSE TextsOf(k - 1) \cup {t \o p : t \in TextsOf(k - 1), p \in Pieces}

PostedTexts == TextsOf(MaxPieces)

Nows == {DateTime(2026, 11, 4, 5849), DateTime(2024, 3, 1, 0)}

NotRun == [raised |-> FALSE, exc |-> "not run", value |-> ""]

\* jobs_index.json before anything wrote it
NoIndex == [exists |-> FALSE, entries |-> <<>>]

\* process_search_results not started
BatchIdle ==
    /\ job_ids = <<>>
    /\ attempted = <<>>
    /\ all_jobs_data = <<>>
    /\ valid_jobs_data = <<>>
    /\ batch_return = NotRun

\* extract_data_from_api_response not called
ExtractIdle ==
    /\ payload = NoJob
    /\ extract_result = NotRun

\* make_request_with_backoff not called
FetchIdle ==
    /\ max_retries = 0
    /\ replies = <<>>
    /\ fetch_result = NotRun

\* nothing else has run
RunsIdle ==
    /\ run_input = <<>>
    /\ runs = <<>>

\* main not started
MainIdle ==
    /\ main_input = <<>>
    /\ main_mode = "not run"

\* extract_job_ids_from_search not started
SearchIdle ==
    /\ search_input = <<>>
    /\ page_num = 0
    /\ jobs_found = 0
    /\ consecutive_empty_pages = 0

ElseIdle == RunsIdle /\ MainIdle /\ SearchIdle

\* an empty output directory and no output file
StoreIdle ==
    /\ job_files = <<>>
    /\ output_json = <<>>
    /\ jobs_index = NoIndex
    /\ tracker_ops = 0
    /\ pc = "idle"
    /\ calls = <<>>
    /\ BatchIdle
    /\ ElseIdle
    /\ ExtractIdle
    /\ FetchIdle

InitDate ==
    /\ posted_text \in PostedTexts
    /\ now \in Nows
    /\ date_result = NotRun
    /\ job_data = NoJob
    /\ clean_result = NotRun
    /\ valid_result = "not run"
    /\ enriched = <<>>
    /\ StoreIdle

parse_posted_date ==
    /\ date_result = NotRun
    /\ date_result' = ParsePostedDate(posted_text, now)
    /\ UNCHANGED <<posted_text, now, cleanVars, enriched, storeVars, restVars>>

NextDate == parse_posted_date

SpecDate == InitDate /\ [][NextDate]_vars

(***************************************************************************)
(* generate_primary_description, clean_and_validate_job_data,              *)
(* validate_job_data                                                       *)
(***************************************************************************)
\* f"{x}" of a value
Fmt(x) == CASE x.t = "str" -> x.v [] x.t = "None" -> "None" [] OTHER -> "?"

\* the first position from i on where r'(?<=[.!?])\s+' matches, 0 when none
RECURSIVE SentenceBreak(_, _)
SentenceBreak(s, i) ==
    IF i > Len(s) THEN 0
    ELSE IF i >= 2 /\ IsSpace(Char(s, i)) /\ Char(s, i - 1) \in {".", "!", "?"} THEN i
    ELSE SentenceBreak(s, i + 1)

\* " ".join(re.split(r'(?<=[.!?])\s+', s)[:2])
FirstTwoSentences(s) ==
    LET p1 == SentenceBreak(s, 1)
        e1 == SpaceRunEnd(s, p1)
        p2 == SentenceBreak(s, e1 + 1)
    IN  IF p1 = 0 THEN s
        ELSE IF p2 = 0 THEN SubSeq(s, 1, p1 - 1) \o " " \o SubSeq(s, e1 + 1, Len(s))
        ELSE SubSeq(s, 1, p1 - 1) \o " " \o SubSeq(s, e1 + 1, p2 - 1)

\* generate_primary_description(job_data): the text, or the TypeError of
\* re.split on a description that is not a string
GeneratePrimaryDescription(d) ==
    LET company == GetOr(d, "Company Name", Str(""))
        title == GetOr(d, "Title", Str(""))
        location == GetOr(d, "Location", Str(""))
        description == GetOr(d, "Description", Str(""))
        two == FirstTwoSentences(description.v)
        short_desc == IF Len(two) > 150 THEN SubSeq(two, 1, 147) \o "..." ELSE two
    IN  IF ~IsStr(description) THEN Raised("TypeError")
        ELSE Returned(Strip(Fmt(title) \o " at " \o Fmt(company)
                            \o (IF Truthy(location) THEN " in " \o Fmt(location) ELSE "")
                            \o (IF short_desc # "" THEN ". " \o short_desc ELSE "")))

\* the literal a required string field is given when it is empty
DefaultOf(f, old) ==
    CASE f = "Title" -> Str("Untitled Job")
      [] f = "Description" -> Str("No description available")
      [] f = "Primary Description" -> Str("Job posting without description")
      [] f = "Location" -> Str("Remote")
      [] f = "Poster Id" -> Str("000000")
      [] f = "Company Name" -> Str("Unknown Company")
      [] OTHER -> old

\* [x.strip() for x in re.split(r'[,;]+', s) if x.strip()], from i on, the
\* item being read in item
RECURSIVE SplitItems(_, _, _)
SplitItems(s, i, item) ==
    IF i > Len(s)
    THEN (IF Strip(item) # "" THEN <<Strip(item)>> ELSE <<>>)
    ELSE IF Char(s, i) \in {",", ";"}
    THEN (IF Strip(item) # "" THEN <<Strip(item)>> ELSE <<>>) \o SplitItems(s, i + 1, "")
    ELSE SplitItems(s, i + 1, item \o Char(s, i))

\* the array-field step of clean_and_validate_job_data on one value
CleanArray(x) ==
    IF x # Absent /\ IsStr(x) /\ x.v # "" THEN List(SplitItems(x.v, 1, ""))
    ELSE IF x # Absent /\ (~Truthy(x) \/ x = List(<<>>)) THEN None_
    ELSE x

\* int(x) inside try/except (ValueError, TypeError): None when it raises
IntOrNone(x) ==
    CASE IsInt(x) -> x
      [] IsStr(x) ->
            LET t == Strip(x.v)
                digits == IF Char(t, 1) \in {"+", "-"} THEN SubSeq(t, 2, Len(t)) ELSE t
            IN  IF digits # "" /\ AllDigits(digits)
                THEN IntVal(IF Char(t, 1) = "-" THEN 0 - ToInt(digits) ELSE ToInt(digits))
                ELSE None_
      [] OTHER -> None_

\* clean_and_validate_job_data once the Primary Description is there
CleanFields(c1, now_) ==
    LET c2 == [f \in Fields |->
                  IF f \in Range(RequiredStringFields) /\ ~Truthy(Get(c1, f))
                  THEN DefaultOf(f, c1[f]) ELSE c1[f]]
        c3 == [f \in Fields |->
                  IF f \in Range(NullableStringFields) /\ Has(c2, f)
                     /\ (c2[f] = Str("") \/ c2[f] = List(<<>>))
                  THEN None_ ELSE c2[f]]
        c4 == [f \in Fields |-> IF f \in Range(ArrayFields) THEN CleanArray(c3[f]) ELSE c3[f]]
        c5 == [f \in Fields |->
                  IF f \in Range(NumericFields) /\ Get(c4, f) # None_
                  THEN IntOrNone(c4[f]) ELSE c4[f]]
        c6 == IF Get(c5, "Created At") = None_
              THEN Put(c5, "Created At", Str(MinusDaysIso(now_, 30).value)) ELSE c5
    IN  IF Get(c6, "ScrapedAt") = None_ THEN Put(c6, "ScrapedAt", Str(IsoFormat(now_))) ELSE c6

\* clean_and_validate_job_data(job_data) at the time now_
CleanAndValidateJobData(d, now_) ==
    IF ~Truthy(Get(d, "Primary Description"))
    THEN LET g == GeneratePrimaryDescription(d)
         IN  IF g.raised THEN RaisedJob(g.exc)
             ELSE ReturnedJob(CleanFields(Put(d, "Primary Description", Str(g.value)), now_))
    ELSE ReturnedJob(CleanFields(d, now_))

\* s.replace('Z', '+00:00')
RECURSIVE ReplaceZ(_, _)
ReplaceZ(s, i) ==
    IF i > Len(s) THEN ""
    ELSE (IF Char(s, i) = "Z" THEN "+00:00" ELSE Char(s, i)) \o ReplaceZ(s, i + 1)

\* jsonschema's validate([job_data], SCHEMA): the type of every property present
SchemaOk(d) ==
    \A f \in Fields :
        Has(d, f) =>
            IF f \in Range(RequiredFields) THEN IsStr(d[f])
            ELSE IF f \in Range(ArrayFields) THEN IsList(d[f]) \/ d[f] = None_
            ELSE IF f \in Range(NumericFields) THEN IsInt(d[f]) \/ d[f] = None_
            ELSE IF f \in {"Application", "Relevance", "Claude"} THEN TRUE
            ELSE IsStr(d[f]) \/ d[f] = None_

\* the same, with Company Description among the required fields
ValidateJobData_CompanyDescriptionRequired(d) ==
    /\ \A f \in Range(RequiredFields) \cup {"Company Description"} :
          Has(d, f) /\ d[f] # None_ /\ d[f] # Str("")
    /\ \A f \in Range(ArrayFields) : (Has(d, f) /\ d[f] # None_) => IsList(d[f])
    /\ \A f \in Range(NumericFields) : (Has(d, f) /\ d[f] # None_) => IsInt(d[f])
    /\ \A f \in Range(DateFields) :
          (Has(d, f) /\ Truthy(d[f])) => (IsStr(d[f]) /\ FromIsoFormatOk(ReplaceZ(d[f].v, 1)))
    /\ SchemaOk(d)

\* validate_job_data(job_data): an exception inside it is caught and gives False
ValidateJobData(d) ==
    /\ \A f \in Range(RequiredFields) : Has(d, f) /\ d[f] # None_ /\ d[f] # Str("")
    /\ \A f \in Range(ArrayFields) : (Has(d, f) /\ d[f] # None_) => IsList(d[f])
    /\ \A f \in Range(NumericFields) : (Has(d, f) /\ d[f] # None_) => IsInt(d[f])
    /\ \A f \in Range(DateFields) :
          (Has(d, f) /\ Truthy(d[f])) => (IsStr(d[f]) /\ FromIsoFormatOk(ReplaceZ(d[f].v, 1)))
    /\ SchemaOk(d)

(***************************************************************************)
(* The schema normalizer run on one raw record                             *)
(***************************************************************************)
MaxDefects == 2

\* a complete record as the extractor builds it
BaseJob ==
    [f \in Fields |->
        CASE f = "Title" -> Str("Angular Developer")
          [] f = "Description" -> Str("We build apps.  Join us! Apply now.")
          [] f = "Primary Description" -> Str("Angular Developer at Acme in Rome")
          [] f = "Detail URL" -> Str("https://www.linkedin.com/jobs/view/123/")
          [] f = "Location" -> Str("Rome")
          [] f = "Poster Id" -> Str("1234567")
          [] f = "Company Name" -> Str("Acme")
          [] f = "Company Apply Url" -> Str("https://www.linkedin.com/jobs/view/123/")
          [] f = "Created At" -> Str("2026-10-01T00:00:00")
          [] f = "ScrapedAt" -> Str("2026-11-04T01:37:29")
          [] OTHER -> EmptyJobData[f]]

\* the other values the extractor may leave in a field
Alternatives(f) ==
    IF f \in Range(RequiredStringFields) THEN {Absent, None_, Str("")}
    ELSE IF f \in Range(DateFields) THEN {Absent, None_, Str(""), Str("last week")}
    ELSE IF f \in Range(ArrayFields)
         THEN {Absent, Str(""), Str(",;"), Str("a, b;c"), List(<<>>), List(<<"x">>)}
    ELSE IF f = "Employee Count" THEN {IntVal(3000), Str("3000"), Str("1,000"), Str("")}
    ELSE IF f = "Company Founded" THEN {IntVal(1999), Str("abc")}
    ELSE IF f \in {"Company Logo", "Company Website"}
         THEN {Str(""), List(<<>>), Str("https://acme.example/")}
    ELSE IF f = "Company Description" THEN {None_, Str("Acme makes anvils.")}
    ELSE {}

Overrides == UNION {{<<f, x>> : x \in Alternatives(f)} : f \in Fields}

RECURSIVE RawJobs(_)
RawJobs(k) ==
    IF k = 0 THEN {BaseJob}
    ELSE RawJobs(k - 1) \cup {Put(r, o[1], o[2]) : r \in RawJobs(k - 1), o \in Overrides}

InitClean ==
    /\ job_data \in RawJobs(MaxDefects)
    /\ now \in Nows
    /\ clean_result = NotRun
    /\ valid_result = "not run"
    /\ posted_text = ""
    /\ date_result = NotRun
    /\ enriched = <<>>
    /\ StoreIdle

clean_and_validate_job_data ==
    /\ clean_result = NotRun
    /\ clean_result' = CleanAndValidateJobData(job_data, now)
    /\ UNCHANGED <<job_data, now, valid_result, dateVars, restVars, enriched, storeVars>>

validate_job_data ==
    /\ valid_result = "not run"
    /\ valid_result' = (IF ValidateJobData(job_data) THEN "True" ELSE "False")
    /\ UNCHANGED <<job_data, now, clean_result, dateVars, restVars, enriched, storeVars>>

NextClean == clean_and_validate_job_data \/ validate_job_data

SpecClean == InitClean /\ [][NextClean]_vars

(***************************************************************************)
(* enrich_job_data_for_application                                         *)
(***************************************************************************)
ApplicationKeys ==
    {"Status", "Applied Date", "Response Date", "Interview Date", "Offer Date",
     "Rejection Date", "Notes", "Follow Up Date", "Cover Letter", "Salary Range",
     "Skills Match", "Location Match", "Priority", "Interest Level"}

\* the Application object the enricher writes
DefaultApplication ==
    [k \in ApplicationKeys |->
        IF k = "Status" THEN Str("Not Applied")
        ELSE IF k \in {"Priority", "Interest Level"} THEN Str("Medium")
        ELSE None_]

keywords == <<"angular", "typescript", "frontend", "front-end", "front end", "javascript",
              "react">>

\* the same, counting a keyword of the title again when the description has it
KeywordPoints_Both(keyword, title, description) ==
    (IF Contains(title, keyword) THEN 3 ELSE 0)
    + (IF Contains(description, keyword) THEN 1 ELSE 0)

\* what one keyword adds to the score: 3 in the title, else 1 in the description
KeywordPoints(keyword, title, description) ==
    IF Contains(title, keyword) THEN 3
    ELSE IF Contains(description, keyword) THEN 1
    ELSE 0

\* the loop over keywords from the i-th on, with the score and the matched
\* keywords so far
RECURSIVE KeywordLoop(_, _, _, _, _)
KeywordLoop(title, description, i, score, matched_keywords) ==
    IF i > Len(keywords) THEN [score |-> score, matched_keywords |-> matched_keywords]
    ELSE LET points == KeywordPoints(keywords[i], title, description)
         IN  KeywordLoop(title, description, i + 1, score + points,
                         IF points > 0 /\ keywords[i] \notin Range(matched_keywords)
                         THEN Append(matched_keywords, keywords[i])
                         ELSE matched_keywords)

\* the same, looking at the title only
Mentioned_TitleOnly(name, title, description) ==
    Contains(Lower(title), name)

\* name in title.lower() or name in description.lower()
Mentioned(name, title, description) ==
    Contains(Lower(title), name) \/ Contains(Lower(description), name)

RelevanceKeys ==
    {"Score", "Keywords", "Angular Mentioned", "React Mentioned", "TypeScript Mentioned"}

\* the Relevance object of a lowercased title and description
ComputeRelevance(title, description) ==
    LET loop == KeywordLoop(title, description, 1, 0, <<>>)
    IN  [k \in RelevanceKeys |->
            CASE k = "Score" -> IntVal(loop.score)
              [] k = "Keywords" -> List(loop.matched_keywords)
              [] k = "Angular Mentioned" -> Bool(Mentioned("angular", title, description))
              [] k = "React Mentioned" -> Bool(Mentioned("react", title, description))
              [] k = "TypeScript Mentioned" ->
                    Bool(Mentioned("typescript", title, description))]

\* the same, keeping a Relevance object the record already has
RelevanceOf_Merged(enriched_data) ==
    IF Has(enriched_data, "Relevance") THEN enriched_data["Relevance"]
    ELSE Dict(ComputeRelevance(Lower(GetOr(enriched_data, "Title", Str("")).v),
                               Lower(GetOr(enriched_data, "Description", Str("")).v)))

\* the Relevance object written into the record
RelevanceOf(enriched_data) ==
    Dict(ComputeRelevance(Lower(GetOr(enriched_data, "Title", Str("")).v),
                          Lower(GetOr(enriched_data, "Description", Str("")).v)))

\* the same, keeping an Application object the record already has
EnrichJobDataForApplication_KeepApplication(job_data_) ==
    IF \/ ~IsStr(GetOr(job_data_, "Title", Str("")))
       \/ ~IsStr(GetOr(job_data_, "Description", Str("")))
    THEN RaisedJob("AttributeError")
    ELSE ReturnedJob(Put(Put(job_data_, "Application",
                             IF Has(job_data_, "Application") THEN job_data_["Application"]
                             ELSE Dict(DefaultApplication)),
                         "Relevance", RelevanceOf(job_data_)))

\* enrich_job_data_for_application(job_data): the enriched copy, or the
\* AttributeError of .lower() on a Title or Description that is not a string
EnrichJobDataForApplication(job_data_) ==
    IF \/ ~IsStr(GetOr(job_data_, "Title", Str("")))
       \/ ~IsStr(GetOr(job_data_, "Description", Str("")))
    THEN RaisedJob("AttributeError")
    ELSE ReturnedJob(Put(Put(job_data_, "Application", Dict(DefaultApplication)),
                         "Relevance", RelevanceOf(job_data_)))

\* the record passed in when both assignments are made on it, not on a copy
EnrichInputAfter_SameObject(job_data_) ==
    IF EnrichJobDataForApplication(job_data_).raised THEN job_data_
    ELSE EnrichJobDataForApplication(job_data_).value

\* The record passed in, as the caller finds it after the call: enriched_data
\* is job_data.copy(), the two assignments replace keys of that copy, and no
\* object nested in job_data is written to.
EnrichInputAfter(job_data_) ==
    IF EnrichJobDataForApplication(job_data_).raised THEN job_data_
    ELSE [f \in DOMAIN job_data_ |-> job_data_[f]]

(***************************************************************************)
(* The enricher run on one record, and again on its own result             *)
(***************************************************************************)
MaxTitleWords == 2
MaxDescWords == 2
MaxEnrich == 2

TitleWords == {"Angular", "Reactive", "Front-End", "JavaScript Frontend"}
DescWords == {"Angular", "TypeScript", "Front End"}

\* the enricher does not read the clock
EnrichNow == DateTime(2026, 11, 4, 5849)

\* the texts of at most k words of W
RECURSIVE Phrases(_, _)
Phrases(W, k) ==
    IF k = 0 THEN {""}
    ELSE Phrases(W, k - 1)
         \cup {IF ph = "" THEN w ELSE ph \o " " \o w : ph \in Phrases(W, k - 1), w \in W}

\* an Application that holds tracked progress
TrackedApplication ==
    [k \in ApplicationKeys |->
        CASE k = "Status" -> Str("Interview")
          [] k = "Applied Date" -> Str("2026-10-02T09:00:00")
          [] k = "Interview Date" -> Str("2026-10-20T15:30:00")
          [] k = "Notes" -> Str("2026-10-02: sent through the company site")
          [] k = "Cover Letter" -> Str("Dear Acme")
          [] k = "Priority" -> Str("High")
          [] k = "Interest Level" -> Str("High")
          [] OTHER -> None_]

\* a Relevance object that belongs to another title and description
StaleRelevance ==
    [k \in RelevanceKeys |->
        CASE k = "Score" -> IntVal(9)
          [] k = "Keywords" -> List(<<"react", "javascript", "frontend">>)
          [] k = "React Mentioned" -> Bool(TRUE)
          [] OTHER -> Bool(FALSE)]

\* what the record carries already: nothing, or both objects
Carried ==
    {[app |-> Absent, rel |-> Absent],
     [app |-> Dict(TrackedApplication), rel |-> Dict(StaleRelevance)]}

EnrichInputs ==
    {Put(Put(Put(Put(BaseJob, "Title", t), "Description", de), "Application", c.app),
         "Relevance", c.rel) :
        t \in {Str(x) : x \in Phrases(TitleWords, MaxTitleWords)} \cup {Absent},
        de \in {Str(x) : x \in Phrases(DescWords, MaxDescWords)},
        c \in Carried}

InitEnrich ==
    /\ job_data \in EnrichInputs
    /\ now = EnrichNow
    /\ enriched = <<>>
    /\ clean_result = NotRun
    /\ valid_result = "not run"
    /\ posted_text = ""
    /\ date_result = NotRun
    /\ StoreIdle

enrich_job_data_for_application ==
    /\ Len(enriched) < MaxEnrich
    /\ (IF enriched = <<>> THEN TRUE ELSE ~enriched[Len(enriched)].raised)
    /\ enriched' = Append(enriched,
                          EnrichJobDataForApplication(IF enriched = <<>> THEN job_data
                                                      ELSE enriched[Len(enriched)].value))
    /\ job_data' = IF enriched = <<>> THEN EnrichInputAfter(job_data) ELSE job_data
    /\ UNCHANGED <<now, clean_result, valid_result, dateVars, restVars, storeVars>>

NextEnrich == enrich_job_data_for_application

SpecEnrich == InitEnrich /\ [][NextEnrich]_vars

(***************************************************************************)
(* Job ids, file names and the exports into the output directory           *)
(***************************************************************************)
RECURSIVE LastIndexOf(_, _, _)
LastIndexOf(s, c, i) ==
    IF i = 0 THEN 0 ELSE IF Char(s, i) = c THEN i ELSE LastIndexOf(s, c, i - 1)

RECURSIVE FirstIndexOf(_, _, _)
FirstIndexOf(s, c, i) ==
    IF i > Len(s) THEN 0 ELSE IF Char(s, i) = c THEN i ELSE FirstIndexOf(s, c, i + 1)

\* detail_url.split('/')[-1].split('?')[0]
UrlTail(detail_url) ==
    LET last == SubSeq(detail_url, LastIndexOf(detail_url, "/", Len(detail_url)) + 1,
                       Len(detail_url))
        q == FirstIndexOf(last, "?", 1)
    IN  IF q = 0 THEN last ELSE SubSeq(last, 1, q - 1)

\* group 1 of re.search(lit + r'(\d+)', s) looking from i on, "" for no match
RECURSIVE SearchDigits(_, _, _)
SearchDigits(s, lit, i) ==
    IF i > Len(s) THEN ""
    ELSE IF StartsAt(s, i, lit) /\ IsDigit(Char(s, i + Len(lit)))
    THEN SubSeq(s, i + Len(lit), DigitRunEnd(s, i + Len(lit)))
    ELSE SearchDigits(s, lit, i + 1)

\* parse_qs(urlparse(url).query)[name][0], "" when there is no such value
QueryParam(url, name) ==
    LET q == FirstIndexOf(url, "?", 1)
        starts == {i \in 1..Len(url) :
                      /\ q # 0 /\ i > q
                      /\ Char(url, i - 1) \in {"?", "&"}
                      /\ StartsAt(url, i, name \o "=")
                      /\ Char(url, i + Len(name) + 1) \notin {"", "&", "#"}}
        from == Min(starts) + Len(name) + 1
        ends == {j \in from..(Len(url) + 1) : Char(url, j) \in {"", "&", "#"}}
    IN  IF starts = {} THEN "" ELSE SubSeq(url, from, Min(ends) - 1)

\* extract_job_id_from_url(url), "" for None
ExtractJobIdFromUrl(url) ==
    IF SearchDigits(url, "linkedin.com/jobs/view/", 1) # ""
    THEN SearchDigits(url, "linkedin.com/jobs/view/", 1)
    ELSE IF SearchDigits(url, "currentJobId=", 1) # ""
    THEN SearchDigits(url, "currentJobId=", 1)
    ELSE IF QueryParam(url, "jobId") # "" THEN QueryParam(url, "jobId")
    ELSE QueryParam(url, "currentJobId")

\* re.sub(r'[\\/*?:"<>|]', "", s) from i on
RECURSIVE RemoveInvalid(_, _)
RemoveInvalid(s, i) ==
    IF i > Len(s) THEN ""
    ELSE (IF Char(s, i) \in {"\\", "/", "*", "?", ":", "\"", "<", ">", "|"} THEN ""
          ELSE Char(s, i)) \o RemoveInvalid(s, i + 1)

\* re.sub(r'\s+', '_', s) from i on
RECURSIVE Underscores(_, _)
Underscores(s, i) ==
    IF i > Len(s) THEN ""
    ELSE IF IsSpace(Char(s, i)) THEN "_" \o Underscores(s, SpaceRunEnd(s, i) + 1)
    ELSE Char(s, i) \o Underscores(s, i + 1)

\* s[:n]
Prefix(s, n) == IF Len(s) <= n THEN s ELSE SubSeq(s, 1, n)

\* Op of the value of x: x is computed once, as an assignment does before
\* the statements that read the variable
With(x, Op(_)) == CHOOSE r \in {Op(v) : v \in {x}} : TRUE

\* sanitize_filename(filename)
SanitizeFilename(filename) ==
    With(filename, LAMBDA f :
    With(RemoveInvalid(f, 1), LAMBDA s :
    With(Underscores(s, 1), LAMBDA u : Prefix(u, 100))))

\* str(n) of a non-negative n
RECURSIVE IntStr(_)
IntStr(n) == IF n < 10 THEN DigitChar(n) ELSE IntStr(n \div 10) \o DigitChar(n % 10)

\* what an operation on the output directory leaves: the files, the index,
\* and whether it ended in an exception
Stored(files, index, raised) == [files |-> files, index |-> index, raised |-> raised]

\* original_created_at of export_individual_job_files: job id -> the
\* 'Created At' of the last record of jobs_data[1..k] that has both
RECURSIVE OriginalCreatedAt(_, _)
OriginalCreatedAt(jobs_data, k) ==
    IF k = 0 THEN <<>>
    ELSE LET job == jobs_data[k]
             job_id == UrlTail(GetOr(job, "Detail URL", Str("")).v)
         IN  IF job_id # "" /\ Truthy(Get(job, "Created At"))
             THEN (job_id :> job["Created At"]) @@ OriginalCreatedAt(jobs_data, k - 1)
             ELSE OriginalCreatedAt(jobs_data, k - 1)

\* the loop of export_individual_job_files from the k-th record on; a record
\* without 'Created At' ends it in the NameError of the missing datetime import
RECURSIVE ExportLoop(_, _, _, _)
ExportLoop(jobs_data, k, original_created_at, files) ==
    IF k > Len(jobs_data) THEN Stored(files, NoIndex, FALSE)
    ELSE
    LET job == jobs_data[k]
        job_id == UrlTail(GetOr(job, "Detail URL", Str("")).v)
        created_at == IF ~Truthy(Get(job, "Created At")) /\ job_id \in DOMAIN original_created_at
                      THEN original_created_at[job_id] ELSE Get(job, "Created At")
        enriched_job == IF ~Has(job, "Application") THEN EnrichJobDataForApplication(job)
                        ELSE ReturnedJob(job)
        written == IF Truthy(created_at) THEN Put(enriched_job.value, "Created At", created_at)
                   ELSE enriched_job.value
        company_name == SanitizeFilename(GetOr(written, "Company Name", Str("Unknown")).v)
        job_title == SanitizeFilename(GetOr(written, "Title", Str("Unknown")).v)
        filename == With(job_id \o "_" \o company_name \o "_" \o job_title \o ".json",
                         LAMBDA name : Prefix(Underscores(name, 1), 100))
    IN  IF job_id = "" THEN ExportLoop(jobs_data, k + 1, original_created_at, files)
        ELSE IF enriched_job.raised THEN Stored(files, NoIndex, TRUE)
        ELSE IF ~Truthy(created_at) /\ ~Truthy(Get(written, "Created At"))
        THEN Stored(files, NoIndex, TRUE)
        ELSE IF ~IsStr(GetOr(written, "Company Name", Str("Unknown")))
                \/ ~IsStr(GetOr(written, "Title", Str("Unknown")))
        THEN Stored(files, NoIndex, TRUE)
        ELSE ExportLoop(jobs_data, k + 1, original_created_at, (filename :> written) @@ files)

\* export_individual_job_files(jobs_data, output_dir, enrich=True)
ExportIndividualJobFiles(jobs_data, files) ==
    ExportLoop(jobs_data, 1, OriginalCreatedAt(jobs_data, Len(jobs_data)), files)

IndexKeys ==
    {"JobId", "Title", "Company", "Location", "RemoteStatus", "DetailURL", "PostedDate",
     "ScrapedDate", "Status", "AppliedDate", "Priority", "InterestLevel", "Relevance"}

\* d.get(k, default) on the object inside a record's field
ObjGet(obj, k, default) == IF k \in DOMAIN obj.v THEN obj.v[k] ELSE default

\* the index entry direct_export_from_json builds for an exported job
IndexEntry(job_id, job, now_) ==
    [k \in IndexKeys |->
        CASE k = "JobId" -> Str(job_id)
          [] k = "Title" -> Get(job, "Title")
          [] k = "Company" -> Get(job, "Company Name")
          [] k = "Location" -> Get(job, "Location")
          [] k = "RemoteStatus" ->
                IF Contains(Lower(GetOr(job, "Location", Str("")).v), "remote")
                THEN Str("Remote") ELSE Str("Not Specified")
          [] k = "DetailURL" -> Get(job, "Detail URL")
          [] k = "PostedDate" -> GetOr(job, "Created At", Str(IsoFormat(now_)))
          [] k = "ScrapedDate" -> Get(job, "ScrapedAt")
          [] k = "Status" ->
                IF Has(job, "Application")
                THEN ObjGet(job["Application"], "Status", Str("Not Applied"))
                ELSE Str("Not Applied")
          [] k = "AppliedDate" ->
                IF Has(job, "Application") THEN ObjGet(job["Application"], "Applied Date", None_)
                ELSE Absent
          [] k = "Priority" ->
                IF Has(job, "Application")
                THEN ObjGet(job["Application"], "Priority", Str("Medium"))
                ELSE Str("Medium")
          [] k = "InterestLevel" ->
                IF Has(job, "Application")
                THEN ObjGet(job["Application"], "Interest Level", Str("Medium"))
                ELSE Absent
          [] k = "Relevance" ->
                IF Has(job, "Relevance") THEN ObjGet(job["Relevance"], "Score", IntVal(0))
                ELSE IntVal(0)]

\* index.sort(key=lambda x: x.get('Relevance', 0), reverse=True) of the first
\* k entries: a stable sort, the highest score first
RECURSIVE SortByRelevance(_, _)
SortByRelevance(index, k) ==
    IF k = 0 THEN <<>>
    ELSE With(SortByRelevance(index, k - 1), LAMBDA sorted :
         LET e == index[k]
             ahead == {i \in 1..Len(sorted) : sorted[i]["Relevance"].v < e["Relevance"].v}
             at == IF ahead = {} THEN Len(sorted) + 1 ELSE Min(ahead)
         IN  SubSeq(sorted, 1, at - 1) \o <<e>> \o SubSeq(sorted, at, Len(sorted)))

\* the export loop of direct_export_from_json from the k-th record on, with
\* the index entries of the jobs exported so far
RECURSIVE DirectExportLoop(_, _, _, _, _)
DirectExportLoop(jobs_from_file, k, files, index, now_) ==
    IF k > Len(jobs_from_file) THEN Stored(files, index, FALSE)
    ELSE
    LET job0 == jobs_from_file[k]
        detail_url == GetOr(job0, "Detail URL", Str("")).v
        job_id == IF SearchDigits(detail_url, "jobs/view/", 1) # ""
                  THEN SearchDigits(detail_url, "jobs/view/", 1)
                  ELSE IF SearchDigits(detail_url, "currentJobId=", 1) # ""
                  THEN SearchDigits(detail_url, "currentJobId=", 1)
                  ELSE "job_" \o IntStr(k)
        job1 == IF ~Truthy(Get(job0, "Created At"))
                THEN Put(job0, "Created At", Str(IsoFormat(now_))) ELSE job0
        job == IF ~Has(job1, "Application") THEN EnrichJobDataForApplication(job1)
               ELSE ReturnedJob(job1)
        company == Prefix(SanitizeFilename(GetOr(job.value, "Company Name", Str("Unknown")).v), 35)
        title == Prefix(SanitizeFilename(GetOr(job.value, "Title", Str("Unknown")).v), 35)
        filename == job_id \o "_" \o company \o "_" \o title \o ".json"
    IN  IF job.raised THEN Stored(files, index, TRUE)
        ELSE IF ~IsStr(GetOr(job.value, "Company Name", Str("Unknown")))
                \/ ~IsStr(GetOr(job.value, "Title", Str("Unknown")))
        THEN Stored(files, index, TRUE)
        ELSE DirectExportLoop(jobs_from_file, k + 1, (filename :> job.value) @@ files,
                              Append(index, IndexEntry(job_id, job.value, now_)), now_)

\* direct_export_from_json(json_file, output_dir): the files and the index it
\* leaves; an exception, or an empty index, leaves the index as it was
DirectExportFromJson(jobs_from_file, files, old_index, now_) ==
    With(DirectExportLoop(jobs_from_file, 1, files, <<>>, now_), LAMBDA done :
        IF done.raised \/ done.index = <<>> THEN Stored(done.files, old_index, TRUE)
        ELSE Stored(done.files,
                    [exists |-> TRUE, entries |-> SortByRelevance(done.index, Len(done.index))],
                    FALSE))

(***************************************************************************)
(* scrape_linkedin_job and the tracking operations on a job file           *)
(***************************************************************************)
\* the validation step of scrape_linkedin_job on what the extractor
\* produced: an invalid record is cleaned
ValidatedOrCleaned(raw, now_) ==
    IF ValidateJobData(raw) THEN ReturnedJob(raw) ELSE CleanAndValidateJobData(raw, now_)

\* the last step of scrape_linkedin_job: the enriched record is returned
EnrichedOrRaised(checked) ==
    IF checked.raised THEN checked ELSE EnrichJobDataForApplication(checked.value)

\* now.strftime('%Y-%m-%d')
DayOf(now_) == SubSeq(IsoFormat(now_), 1, 10)

\* Notes after a dated note is added to it
WithNote(application, note, now_) ==
    [application EXCEPT !["Notes"] =
        IF Truthy(application["Notes"])
        THEN Str(application["Notes"].v \o "\n\n" \o DayOf(now_) \o ": " \o note)
        ELSE Str(DayOf(now_) \o ": " \o note)]

\* the same, a rejection stamping the Response Date
StampedField_RejectionAsResponse(new_status) ==
    CASE new_status = "Screening" -> "Response Date"
      [] new_status = "Interview" -> "Interview Date"
      [] new_status = "Offer" -> "Offer Date"
      [] new_status = "Rejected" -> "Response Date"
      [] OTHER -> ""

\* the date field a status stamps with now, "" for a status that stamps none
StampedField(new_status) ==
    CASE new_status = "Screening" -> "Response Date"
      [] new_status = "Interview" -> "Interview Date"
      [] new_status = "Offer" -> "Offer Date"
      [] new_status = "Rejected" -> "Rejection Date"
      [] OTHER -> ""

\* the record update_application_status writes back into the job file
UpdateApplicationStatus(job_data_, new_status, notes, applied_date, now_) ==
    LET job == IF ~Has(job_data_, "Application") THEN EnrichJobDataForApplication(job_data_)
               ELSE ReturnedJob(job_data_)
        app == job.value["Application"].v
        applied == IF ~Truthy(applied_date) /\ new_status = "Applied"
                      /\ app["Status"] = Str("Not Applied")
                   THEN Str(IsoFormat(now_)) ELSE applied_date
        app1 == [app EXCEPT !["Status"] = Str(new_status)]
        app2 == IF new_status = "Applied" /\ Truthy(applied)
                THEN [app1 EXCEPT !["Applied Date"] = applied]
                ELSE IF StampedField(new_status) # ""
                THEN [app1 EXCEPT ![StampedField(new_status)] = Str(IsoFormat(now_))]
                ELSE app1
        app3 == IF Truthy(notes) THEN WithNote(app2, notes.v, now_) ELSE app2
    IN  IF job.raised THEN job ELSE ReturnedJob(Put(job.value, "Application", Dict(app3)))

\* where the first entry of the index with this JobId is, 0 for none
RECURSIVE EntryOf(_, _, _)
EntryOf(entries, job_id, i) ==
    IF i > Len(entries) THEN 0
    ELSE IF entries[i]["JobId"] = Str(job_id) THEN i
    ELSE EntryOf(entries, job_id, i + 1)

\* update_index_for_job(index_file, job_data): the index it leaves
UpdateIndexForJob(index, job_data_) ==
    LET job_id == UrlTail(GetOr(job_data_, "Detail URL", Str("")).v)
        i == EntryOf(index.entries, job_id, 1)
        app == job_data_["Application"]
    IN  IF job_id = "" \/ i = 0 \/ ~Has(job_data_, "Application") THEN index
        ELSE [index EXCEPT !.entries[i] =
                 [@ EXCEPT !["Status"] = ObjGet(app, "Status", Str("Not Applied")),
                           !["AppliedDate"] = ObjGet(app, "Applied Date", None_),
                           !["Priority"] = ObjGet(app, "Priority", Str("Medium")),
                           !["InterestLevel"] = ObjGet(app, "Interest Level", Str("Medium"))]]

\* (now + timedelta(days=n)).isoformat()
PlusDaysIso(now_, n) == IsoFormat([ord |-> now_.ord + n, sec |-> now_.sec])

\* the record set_reminder_for_followup writes back into the job file
SetReminderForFollowup(job_data_, reminder_date, days_from_now, now_) ==
    LET job == IF ~Has(job_data_, "Application") THEN EnrichJobDataForApplication(job_data_)
               ELSE ReturnedJob(job_data_)
        date == IF ~Truthy(reminder_date) THEN PlusDaysIso(now_, days_from_now)
                ELSE reminder_date.v
        t == FirstIndexOf(date, "T", 1)
        reminder_note == "Promemoria per follow-up impostato per "
                         \o (IF t = 0 THEN date ELSE SubSeq(date, 1, t - 1))
        app == [job.value["Application"].v EXCEPT !["Follow Up Date"] = Str(date)]
    IN  IF job.raised THEN job
        ELSE ReturnedJob(Put(job.value, "Application", Dict(WithNote(app, reminder_note, now_))))

\* the record save_claude_response writes back into the job file
SaveClaudeResponse(job_data_, response_type, content) ==
    LET claude == IF Has(job_data_, "Claude") THEN job_data_["Claude"].v ELSE <<>>
        job == Put(job_data_, "Claude", Dict((response_type :> Str(content)) @@ claude))
    IN  IF response_type = "cover_letter" /\ Has(job, "Application")
        THEN Put(job, "Application",
                 Dict([job["Application"].v EXCEPT !["Cover Letter"] = Str(content)]))
        ELSE job

(***************************************************************************)
(* Runs of main on a job URL, direct exports and tracking operations on    *)
(* one output directory                                                    *)
(***************************************************************************)
MaxTrackerOps == 2
DaysFromNow == 7

JobUrls == {"https://www.linkedin.com/jobs/view/123",
            "https://www.linkedin.com/jobs/view/456/"}

\* what the extractor hands over for a posting: a complete record for the
\* first, one without a company name for the second, and for both the record
\* of a company with two links as its website
Extracted(job_url, now_) ==
    LET complete == Put(Put(BaseJob, "Detail URL", Str(job_url)),
                        "ScrapedAt", Str(IsoFormat(now_)))
        two_links == List(<<"https://acme.example", "https://acme.example/it">>)
    IN  (IF UrlTail(job_url) # "" THEN {complete}
         ELSE {Put(complete, "Company Name", Str(""))})
        \cup {Put(complete, "Company Website", two_links)}

\* the status updates the user makes: new_status and notes
StatusUpdates == {<<"Applied", None_>>, <<"Rejected", Str("called")>>}

InitStore ==
    /\ now = EnrichNow
    /\ job_data = NoJob
    /\ StoreIdle
    /\ enriched = <<>>
    /\ clean_result = NotRun
    /\ valid_result = "not run"
    /\ posted_text = ""
    /\ date_result = NotRun

scrape_linkedin_job ==
    /\ pc = "idle"
    /\ \E job_url \in JobUrls : \E raw \in Extracted(job_url, now) :
       \E checked \in {ValidatedOrCleaned(raw, now)} : \E r \in {EnrichedOrRaised(checked)} :
          /\ ExtractJobIdFromUrl(job_url) # ""
          /\ job_data' = r.value
          /\ pc' = IF r.raised THEN "idle" ELSE "scraped"
    /\ UNCHANGED <<now, clean_result, valid_result, enriched, dateVars, restVars,
                   job_files, output_json, jobs_index, tracker_ops>>

save_job_data_to_json ==
    /\ pc = "scraped"
    /\ IF ValidateJobData(job_data)
       THEN output_json' = <<job_data>> /\ pc' = "saved" /\ UNCHANGED job_data
       ELSE pc' = "idle" /\ job_data' = NoJob /\ UNCHANGED output_json
    /\ UNCHANGED <<now, clean_result, valid_result, enriched, dateVars, restVars,
                   job_files, jobs_index, tracker_ops>>

export_individual_job_files ==
    /\ pc = "saved"
    /\ job_files' = ExportIndividualJobFiles(<<job_data>>, job_files).files
    /\ pc' = "idle"
    /\ job_data' = NoJob
    /\ UNCHANGED <<now, clean_result, valid_result, enriched, dateVars, restVars,
                   output_json, jobs_index, tracker_ops>>

\* the run ends after saving when individual files were not asked for
sys_exit ==
    /\ pc = "saved"
    /\ pc' = "idle"
    /\ job_data' = NoJob
    /\ UNCHANGED <<now, clean_result, valid_result, enriched, dateVars, restVars,
                   job_files, output_json, jobs_index, tracker_ops>>

direct_export_from_json ==
    /\ output_json # <<>>
    /\ \E r \in {DirectExportFromJson(output_json, job_files, jobs_index, now)} :
          job_files' = r.files /\ jobs_index' = r.index
    /\ UNCHANGED <<now, job_data, clean_result, valid_result, enriched, dateVars, restVars,
                   output_json, tracker_ops, pc>>

update_application_status ==
    /\ tracker_ops < MaxTrackerOps
    /\ \E job_file \in DOMAIN job_files : \E update \in StatusUpdates :
       \E r \in {UpdateApplicationStatus(job_files[job_file], update[1], update[2],
                                         None_, now)} :
              /\ ~r.raised
              /\ job_files' = [job_files EXCEPT ![job_file] = r.value]
              /\ jobs_index' = IF jobs_index.exists THEN UpdateIndexForJob(jobs_index, r.value)
                               ELSE jobs_index
    /\ tracker_ops' = tracker_ops + 1
    /\ UNCHANGED <<now, job_data, clean_result, valid_result, enriched, dateVars, restVars,
                   output_json, pc>>

set_reminder_for_followup ==
    /\ tracker_ops < MaxTrackerOps
    /\ \E job_file \in DOMAIN job_files :
       \E r \in {SetReminderForFollowup(job_files[job_file], None_, DaysFromNow, now)} :
          ~r.raised /\ job_files' = [job_files EXCEPT ![job_file] = r.value]
    /\ tracker_ops' = tracker_ops + 1
    /\ UNCHANGED <<now, job_data, clean_result, valid_result, enriched, dateVars, restVars,
                   output_json, jobs_index, pc>>

save_claude_response ==
    /\ tracker_ops < MaxTrackerOps
    /\ \E job_file \in DOMAIN job_files :
          job_files' = [job_files EXCEPT ![job_file] =
                           SaveClaudeResponse(job_files[job_file], "cover_letter", "Dear Acme")]
    /\ tracker_ops' = tracker_ops + 1
    /\ UNCHANGED <<now, job_data, clean_result, valid_result, enriched, dateVars, restVars,
                   output_json, jobs_index, pc>>

NextStore ==
    \/ scrape_linkedin_job
    \/ save_job_data_to_json
    \/ export_individual_job_files
    \/ sys_exit
    \/ direct_export_from_json
    \/ update_application_status
    \/ set_reminder_for_followup
    \/ save_claude_response

SpecStore == InitStore /\ [][NextStore]_vars

(***************************************************************************)
(* extract_data_from_api_response on a payload. A payload is given by the  *)
(* value of each key of PayloadKeys, Absent for a key it does not have;    *)
(* it has no other key. jobLocation is given by its address. No text of a  *)
(* payload has a '<', so that no HTML is taken out of a description.       *)
(***************************************************************************)
PayloadKeys == {"@type", "title", "description", "jobLocation", "hiringOrganization",
                "datePosted", "url"}
OrgKeys == {"name", "logo", "sameAs", "identifier", "description", "specialties"}
AddressKeys == <<"addressLocality", "addressRegion", "addressCountry">>

\* sep.join(parts)
RECURSIVE Join(_, _)
Join(parts, sep) ==
    IF parts = <<>> THEN ""
    ELSE IF Len(parts) = 1 THEN parts[1]
    ELSE parts[1] \o sep \o Join(Tail(parts), sep)

\* re.sub(r'\s+', ' ', s) from i on
RECURSIVE SingleSpaces(_, _)
SingleSpaces(s, i) ==
    IF i > Len(s) THEN ""
    ELSE IF IsSpace(Char(s, i)) THEN " " \o SingleSpaces(s, SpaceRunEnd(s, i) + 1)
    ELSE Char(s, i) \o SingleSpaces(s, i + 1)

\* the strings str(api_response) shows apart from the keys
StringsOf(api_response) ==
    {api_response[k].v : k \in {k \in PayloadKeys : IsStr(api_response[k])}}
    \cup (IF api_response["jobLocation"] = Absent THEN {}
          ELSE {api_response["jobLocation"].v[k].v :
                   k \in {k \in Range(AddressKeys) : IsStr(api_response["jobLocation"].v[k])}})
    \cup (IF api_response["hiringOrganization"] = Absent THEN {}
          ELSE {api_response["hiringOrganization"].v[k].v :
                   k \in {k \in OrgKeys : IsStr(api_response["hiringOrganization"].v[k])}})

\* word in str(api_response).lower()
Shows(api_response, word) == \E s \in StringsOf(api_response) : Contains(Lower(s), word)

\* the 'Posizione' step of the JSON-LD branch
JsonLdLocation(api_response, job_data_) ==
    IF api_response["jobLocation"] = Absent THEN job_data_
    ELSE LET address == api_response["jobLocation"].v
             location_parts == SelectSeq(AddressKeys, LAMBDA k : address[k] # Absent)
             location == Join([i \in 1..Len(location_parts) |-> address[location_parts[i]].v],
                              ", ")
         IN  Put(job_data_, "Location",
                 Str(IF Shows(api_response, "remote") /\ location # ""
                        /\ ~Contains(Lower(location), "remote")
                     THEN location \o " (Remote)" ELSE location))

\* the 'Dettagli dell'azienda' step of the JSON-LD branch for a payload that
\* has hiringOrganization; hash_ is hash(name) % 10000000
JsonLdOrganization(org, job_data_, hash_) ==
    [f \in Fields |->
        CASE f = "Company Name" -> IF org["name"] = Absent THEN None_ ELSE org["name"]
          [] f = "Company Logo" -> IF IsStr(org["logo"]) THEN org["logo"] ELSE job_data_[f]
          [] f = "Company Website" ->
                IF org["sameAs"] # Absent THEN org["sameAs"] ELSE job_data_[f]
          [] f = "Poster Id" ->
                IF IsStr(org["identifier"]) THEN org["identifier"] ELSE Str(IntStr(hash_))
          [] f = "Company Description" ->
                IF org["description"] # Absent THEN org["description"] ELSE job_data_[f]
          [] f = "Specialties" ->
                IF IsList(org["specialties"]) THEN org["specialties"]
                ELSE IF IsStr(org["specialties"])
                THEN List(SplitItems(org["specialties"].v, 1, ""))
                ELSE None_
          [] OTHER -> job_data_[f]]

\* the part every payload goes through, from 'Formato di risposta API
\* standard' on: the title, the description with single spaces, the remote
\* mark and the generated Primary Description
StandardFormat(api_response, job_data_) ==
    LET d1 == IF api_response["title"] # Absent
              THEN Put(job_data_, "Title", api_response["title"]) ELSE job_data_
        d2 == IF IsStr(api_response["description"])
              THEN Put(d1, "Description",
                       Str(Strip(SingleSpaces(api_response["description"].v, 1))))
              ELSE d1
        location == d2["Location"]
        d3 == IF /\ Truthy(location)
                 /\ ~Contains(Lower(location.v), "remote")
                 /\ \E w \in {"remote", "remoto", "work from home", "wfh"} :
                       Shows(api_response, w)
              THEN Put(d2, "Location", Str(location.v \o " (Remote)")) ELSE d2
        g == GeneratePrimaryDescription(d3)
    IN  IF Truthy(d3["Primary Description"]) THEN ReturnedJob(d3)
        ELSE IF g.raised THEN RaisedJob(g.exc)
        ELSE ReturnedJob(Put(d3, "Primary Description", Str(g.value)))

\* extract_data_from_api_response(api_response, job_url) at the time now_:
\* the record, or the exception that leaves it. A JobPosting without
\* hiringOrganization reads the local variable company before it is assigned.
ExtractDataFromApiResponse(api_response, job_url, now_, hash_) ==
    LET d0 == Put(Put(EmptyJobData, "Detail URL", Str(job_url)),
                  "ScrapedAt", Str(IsoFormat(now_)))
        d1 == Put(Put(d0, "Title", Get(api_response, "title")),
                  "Description", Get(api_response, "description"))
        d2 == JsonLdLocation(api_response, d1)
    IN  IF api_response["@type"] # Str("JobPosting") THEN StandardFormat(api_response, d0)
        ELSE IF api_response["hiringOrganization"] = Absent
        THEN RaisedJob("UnboundLocalError")
        ELSE StandardFormat(api_response,
                            JsonLdOrganization(api_response["hiringOrganization"].v, d2, hash_))

(***************************************************************************)
(* process_search_results: the loop over the ids of a search, and the      *)
(* single posting run of main beside it                                    *)
(***************************************************************************)
MaxJobs == 2

\* the ids a search page may show
JobIds == {"123", "456", "789"}

\* what extract_job_ids_from_search may return: every id is appended only
\* when it is not in the list yet
IdLists ==
    {ids \in UNION {[1..n -> JobIds] : n \in 0..MaxJobs} :
        \A i, j \in DOMAIN ids : i # j => ids[i] # ids[j]}

FullAddress ==
    [k \in Range(AddressKeys) |->
        CASE k = "addressLocality" -> Str("Rome")
          [] k = "addressRegion" -> Str("Lazio")
          [] k = "addressCountry" -> Str("IT")]

FullOrganization ==
    [k \in OrgKeys |->
        CASE k = "name" -> Str("Acme")
          [] k = "logo" -> Str("https://acme.example/logo.png")
          [] k = "sameAs" -> Str("https://acme.example")
          [] k = "identifier" -> Str("1234567")
          [] k = "description" -> Str("Acme makes anvils.")
          [] k = "specialties" -> Str("anvils; rockets")]

\* a JSON-LD JobPosting with every key
FullPayload ==
    [k \in PayloadKeys |->
        CASE k = "@type" -> Str("JobPosting")
          [] k = "title" -> Str("Angular Developer")
          [] k = "description" -> Str("We build apps.\n Join us! Remote team.")
          [] k = "jobLocation" -> Dict(FullAddress)
          [] k = "hiringOrganization" -> Dict(FullOrganization)
          [] k = "datePosted" -> Str("2026-11-01")
          [] k = "url" -> Str("https://acme.example/apply")]

\* the payload without the keys of gone
Without(api_response, gone) ==
    [k \in DOMAIN api_response |-> IF k \in gone THEN Absent ELSE api_response[k]]

\* hash(name) % 10000000 of the running interpreter
HashValue == 4512873

\* what the endpoint answers for one posting of the batch: nothing at all
\* (both fetches failed), the full payload, the payload without one key, or
\* the payload of an organization with two sameAs links
BatchResponses ==
    {None_, Dict(FullPayload),
     Dict(Without(FullPayload, {"datePosted"})),
     Dict(Without(FullPayload, {"description"})),
     Dict(Without(FullPayload, {"hiringOrganization"})),
     Dict([FullPayload EXCEPT !["hiringOrganization"] =
              Dict([FullOrganization EXCEPT !["sameAs"] =
                       List(<<"https://acme.example", "https://acme.example/it">>)])])}

\* scrape_linkedin_job(job_url) when the endpoint answers response: the
\* enriched record, NoJob for None, or the exception that leaves it
ScrapeLinkedinJob(job_url, response, now_) ==
    IF ExtractJobIdFromUrl(job_url) = "" \/ response = None_ THEN ReturnedJob(NoJob)
    ELSE With(ExtractDataFromApiResponse(response.v, job_url, now_, HashValue),
              LAMBDA e : IF e.raised THEN e
                         ELSE EnrichedOrRaised(ValidatedOrCleaned(e.value, now_)))

\* job_url = f"https://www.linkedin.com/jobs/view/{job_id}/"
JobUrlOf(job_id) == "https://www.linkedin.com/jobs/view/" \o job_id \o "/"

\* the same, taking the ids from the end of the list
NextJobId_FromTheEnd(ids, done) == ids[Len(ids) - Len(done)]

\* the id the loop takes after those of done
NextJobId(ids, done) == ids[Len(done) + 1]

\* the same, without the check
AppendIfValid_Unchecked(valid, job_data_) == Append(valid, job_data_)

\* if validate_job_data(job_data): valid_jobs_data.append(job_data)
AppendIfValid(valid, job_data_) ==
    IF ValidateJobData(job_data_) THEN Append(valid, job_data_) ELSE valid

\* (success, jobs) as process_search_results returns it
BatchResult(success, jobs) ==
    [raised |-> FALSE, exc |-> "", value |-> [success |-> success, jobs |-> jobs]]

InitBatch ==
    /\ now = EnrichNow
    /\ job_data = NoJob
    /\ StoreIdle
    /\ enriched = <<>>
    /\ clean_result = NotRun
    /\ valid_result = "not run"
    /\ posted_text = ""
    /\ date_result = NotRun

\* process_search_results up to its loop
extract_job_ids_from_search ==
    /\ pc = "idle"
    /\ batch_return = NotRun
    /\ \E ids \in IdLists :
          /\ job_ids' = ids
          /\ IF ids = <<>>
             THEN batch_return' = BatchResult(FALSE, <<>>) /\ pc' = "returned"
             ELSE pc' = "loop" /\ UNCHANGED batch_return
    /\ UNCHANGED <<now, job_data, clean_result, valid_result, enriched, dateVars, trackVars,
                   job_files, output_json, jobs_index, tracker_ops, attempted,
                   all_jobs_data, valid_jobs_data, extractVars, fetchVars, elseVars>>

\* one turn of the loop; an exception leaves process_search_results and ends
\* the run in main
scrape_next_job ==
    /\ pc = "loop"
    /\ Len(attempted) < Len(job_ids)
    /\ \E job_id \in {NextJobId(job_ids, attempted)} : \E response \in BatchResponses :
       \E r \in {ScrapeLinkedinJob(JobUrlOf(job_id), response, now)} :
          /\ attempted' = Append(attempted, job_id)
          /\ IF r.raised
             THEN /\ batch_return' = Raised(r.exc)
                  /\ pc' = "exited"
                  /\ UNCHANGED <<all_jobs_data, valid_jobs_data>>
             ELSE /\ UNCHANGED <<batch_return, pc>>
                  /\ IF r.value = NoJob
                     THEN UNCHANGED <<all_jobs_data, valid_jobs_data>>
                     ELSE /\ all_jobs_data' = Append(all_jobs_data, r.value)
                          /\ valid_jobs_data' = AppendIfValid(valid_jobs_data, r.value)
    /\ UNCHANGED <<now, job_data, clean_result, valid_result, enriched, dateVars, trackVars,
                   job_files, output_json, jobs_index, tracker_ops, job_ids,
                   extractVars, fetchVars, elseVars>>

\* process_search_results after its loop; opening the output file may fail
save_valid_jobs_data ==
    /\ pc = "loop"
    /\ Len(attempted) = Len(job_ids)
    /\ pc' = "returned"
    /\ IF valid_jobs_data = <<>>
       THEN batch_return' = BatchResult(FALSE, <<>>) /\ UNCHANGED output_json
       ELSE \/ /\ output_json' = valid_jobs_data
               /\ batch_return' = BatchResult(TRUE, valid_jobs_data)
            \/ /\ batch_return' = BatchResult(FALSE, valid_jobs_data)
               /\ UNCHANGED output_json
    /\ UNCHANGED <<now, job_data, clean_result, valid_result, enriched, dateVars, trackVars,
                   job_files, jobs_index, tracker_ops, job_ids, attempted,
                   all_jobs_data, valid_jobs_data, extractVars, fetchVars, elseVars>>

\* index_entry of create_jobs_index for a record, but for KeywordMatches
JobsIndexEntry(job_id, job, now_) ==
    [IndexEntry(job_id, job, now_) EXCEPT !["PostedDate"] = Get(job, "Created At")]

\* the loop of create_jobs_index over the first k records: a record whose
\* Detail URL gives no job id is passed over; one without 'Created At' ends
\* the loop in the NameError of the missing datetime import
RECURSIVE JobsIndexLoop(_, _, _)
JobsIndexLoop(jobs_data, k, now_) ==
    IF k = 0 THEN Stored(<<>>, <<>>, FALSE)
    ELSE With(JobsIndexLoop(jobs_data, k - 1, now_), LAMBDA before :
         LET job == jobs_data[k]
             job_id == UrlTail(GetOr(job, "Detail URL", Str("")).v)
         IN  IF before.raised \/ job_id = "" THEN before
             ELSE IF ~Truthy(Get(job, "Created At")) THEN Stored(<<>>, before.index, TRUE)
             ELSE Stored(<<>>, Append(before.index, JobsIndexEntry(job_id, job, now_)), FALSE))

\* create_jobs_index(jobs_data, output_file): the index file it leaves
CreateJobsIndex(jobs_data, old_index, now_) ==
    With(JobsIndexLoop(jobs_data, Len(jobs_data), now_), LAMBDA done :
        IF done.raised THEN Stored(<<>>, old_index, TRUE)
        ELSE Stored(<<>>,
                    [exists |-> TRUE, entries |-> SortByRelevance(done.index, Len(done.index))],
                    FALSE))

\* main after a successful process_search_results, with --export-individual
export_search_results ==
    /\ pc = "returned"
    /\ batch_return.value.success
    /\ \E jobs \in {batch_return.value.jobs} :
       \E files \in {ExportIndividualJobFiles(jobs, job_files)} :
       \E index \in {CreateJobsIndex(jobs, jobs_index, now)} :
          /\ job_files' = files.files
          /\ jobs_index' = IF files.raised THEN jobs_index ELSE index.index
          /\ pc' = IF files.raised \/ index.raised THEN "exited" ELSE "exported"
    /\ UNCHANGED <<now, job_data, clean_result, valid_result, enriched, dateVars, trackVars,
                   output_json, tracker_ops, batchVars, extractVars, fetchVars, elseVars>>

NextBatch ==
    \/ extract_job_ids_from_search
    \/ scrape_next_job
    \/ save_valid_jobs_data
    \/ export_search_results
    \/ scrape_linkedin_job
    \/ save_job_data_to_json
    \/ sys_exit

SpecBatch == InitBatch /\ [][NextBatch]_vars

(***************************************************************************)
(* extract_data_from_api_response run on one payload                       *)
(***************************************************************************)
MaxMissingKeys == 2

\* the subsets of S with at most n elements
UpTo(S, n) == {T \in SUBSET S : Cardinality(T) <= n}

\* the full payload lacking up to MaxMissingKeys of its keys and up to
\* MaxMissingKeys of the keys of its hiringOrganization
ExtractPayloads ==
    {Without([FullPayload EXCEPT !["hiringOrganization"] =
                 Dict(Without(FullOrganization, gone_org))], gone) :
        gone \in UpTo(PayloadKeys, MaxMissingKeys),
        gone_org \in UpTo(OrgKeys, MaxMissingKeys)}

InitExtract ==
    /\ now = EnrichNow
    /\ payload \in ExtractPayloads
    /\ extract_result = NotRun
    /\ job_data = NoJob
    /\ job_files = <<>>
    /\ output_json = <<>>
    /\ jobs_index = NoIndex
    /\ tracker_ops = 0
    /\ pc = "idle"
    /\ calls = <<>>
    /\ BatchIdle
    /\ ElseIdle
    /\ FetchIdle
    /\ enriched = <<>>
    /\ clean_result = NotRun
    /\ valid_result = "not run"
    /\ posted_text = ""
    /\ date_result = NotRun

extract_data_from_api_response ==
    /\ extract_result = NotRun
    /\ payload # NoJob
    /\ extract_result' = ExtractDataFromApiResponse(payload, JobUrlOf("123"), now, HashValue)
    /\ UNCHANGED <<now, cleanVars, enriched, dateVars, storeVars, trackVars, batchVars,
                   fetchVars, elseVars, payload>>

NextExtract == extract_data_from_api_response

SpecExtract == InitExtract /\ [][NextExtract]_vars

(***************************************************************************)
(* make_request_with_backoff: one call, whatever the server answers        *)
(***************************************************************************)
MaxRetries == 3

\* a response of requests.get
Response(status_code, text) == [status_code |-> status_code, text |-> text]

\* requests.get raising, a timeout for one
Timeout == [status_code |-> 0, text |-> "timeout"]

\* what one requests.get may give
Replies ==
    {Response(200, "<html>Angular Developer</html>"), Response(200, ""), Response(403, ""),
     Response(429, ""), Response(500, ""), Timeout}

\* the same, going on after a 403 as after any other status
Breaks_Never(reply) == FALSE

\* elif response.status_code == 403: break
Breaks(reply) == reply.status_code = 403

InitFetch ==
    /\ max_retries \in 0..MaxRetries
    /\ replies = <<>>
    /\ fetch_result = NotRun
    /\ now = EnrichNow
    /\ job_data = NoJob
    /\ job_files = <<>>
    /\ output_json = <<>>
    /\ jobs_index = NoIndex
    /\ tracker_ops = 0
    /\ pc = "idle"
    /\ calls = <<>>
    /\ BatchIdle
    /\ ElseIdle
    /\ ExtractIdle
    /\ enriched = <<>>
    /\ clean_result = NotRun
    /\ valid_result = "not run"
    /\ posted_text = ""
    /\ date_result = NotRun

\* one turn of for attempt in range(max_retries): the sleep, the request and
\* what its outcome leads to; after a break the function returns None
requests_get ==
    /\ fetch_result = NotRun
    /\ Len(replies) < max_retries
    /\ \E reply \in Replies :
          /\ replies' = Append(replies, reply)
          /\ fetch_result' = IF reply.status_code = 200 THEN Returned(Str(reply.text))
                             ELSE IF Breaks(reply) THEN Returned(None_)
                             ELSE NotRun
    /\ UNCHANGED <<now, cleanVars, enriched, dateVars, storeVars, trackVars, batchVars,
                   extractVars, elseVars, max_retries>>

\* the loop is over: return None
return_none ==
    /\ fetch_result = NotRun
    /\ Len(replies) >= max_retries
    /\ fetch_result' = Returned(None_)
    /\ UNCHANGED <<now, cleanVars, enriched, dateVars, storeVars, trackVars, batchVars,
                   extractVars, elseVars, max_retries, replies>>

NextFetch == requests_get \/ return_none

SpecFetch == InitFetch /\ [][NextFetch]_vars

\* the call goes on: every sleep ends and requests.get has a timeout
SpecFetchLive == SpecFetch /\ WF_vars(NextFetch)

(***************************************************************************)
(* The components that fill in a missing Created At, each run on the       *)
(* record of a JSON file that may lack its dates                           *)
(***************************************************************************)
\* what a date field of the file's record may hold
DateGaps == {Absent, None_, Str("")}

\* the records of the file: BaseJob of posting 123, each of its two dates
\* there or missing in one of the ways of DateGaps
FileRecords ==
    {Put(Put(Put(BaseJob, "Detail URL", Str("https://www.linkedin.com/jobs/view/123")),
             "Created At", c), "ScrapedAt", s) :
        c \in DateGaps \cup {BaseJob["Created At"]},
        s \in DateGaps \cup {BaseJob["ScrapedAt"]}}

InitFill ==
    /\ now \in Nows
    /\ job_data \in FileRecords
    /\ output_json = <<job_data>>
    /\ job_files = <<>>
    /\ jobs_index = NoIndex
    /\ tracker_ops = 0
    /\ pc = "idle"
    /\ calls = <<>>
    /\ BatchIdle
    /\ ElseIdle
    /\ ExtractIdle
    /\ FetchIdle
    /\ enriched = <<>>
    /\ clean_result = NotRun
    /\ valid_result = "not run"
    /\ posted_text = ""
    /\ date_result = NotRun

\* export_individual_job_files and create_jobs_index on the records of the
\* file; an exception of the first leaves the index as it was
export_jobs_data ==
    /\ pc = "idle"
    /\ \E files \in {ExportIndividualJobFiles(output_json, job_files)} :
       \E index \in {CreateJobsIndex(output_json, jobs_index, now)} :
          /\ job_files' = files.files
          /\ jobs_index' = IF files.raised THEN jobs_index ELSE index.index
          /\ pc' = IF files.raised \/ index.raised THEN "exited" ELSE "exported"
    /\ UNCHANGED <<now, job_data, clean_result, valid_result, enriched, dateVars, restVars,
                   output_json, tracker_ops>>

NextFill == clean_and_validate_job_data \/ direct_export_from_json \/ export_jobs_data

SpecFill == InitFill /\ [][NextFill]_vars

(***************************************************************************)
(* The fallback Poster Id in two runs of the program. hash() of a str is   *)
(* keyed by a seed the interpreter draws when it starts, so that each run  *)
(* has its own hash of the company name.                                   *)
(***************************************************************************)
\* values hash(name) may take in a run (of its 64 bits, what fits here)
NameHashes == {0 - 1504512873, 0 - 7, 0, 1234567, 2004512873}

CompanyNames == {"Acme", "Globex", "Initech"}

\* the extraction paths that derive a Poster Id from the company name
Paths == {"html", "api", "json-ld"}

\* abs(x)
Abs(x) == IF x < 0 THEN 0 - x ELSE x

\* str(abs(hash(job_data["Company Name"])) % 10000000)
FallbackPosterId(hash_) == Str(IntStr(Abs(hash_) % 10000000))

\* the Poster Id a run gives to a posting of the company that shows no
\* poster id of its own, by the path taken
PosterIdOf(path, company_name, hash_) ==
    IF path = "json-ld"
    THEN ExtractDataFromApiResponse(
             [FullPayload EXCEPT !["hiringOrganization"] =
                 Dict([Without(FullOrganization, {"identifier"}) EXCEPT
                          !["name"] = Str(company_name)])],
             JobUrlOf("123"), EnrichNow, hash_ % 10000000).value["Poster Id"]
    ELSE FallbackPosterId(hash_)

InitRuns ==
    /\ MainIdle
    /\ SearchIdle
    /\ run_input \in [path : Paths, company_name : CompanyNames]
    /\ runs \in [1..2 -> [hash : NameHashes, poster_id : {None_}]]
    /\ now = EnrichNow
    /\ job_data = NoJob
    /\ job_files = <<>>
    /\ output_json = <<>>
    /\ jobs_index = NoIndex
    /\ tracker_ops = 0
    /\ pc = "idle"
    /\ calls = <<>>
    /\ BatchIdle
    /\ ExtractIdle
    /\ FetchIdle
    /\ enriched = <<>>
    /\ clean_result = NotRun
    /\ valid_result = "not run"
    /\ posted_text = ""
    /\ date_result = NotRun

\* one of the two runs extracts the posting
extract_poster_id ==
    /\ run_input # <<>>
    /\ \E i \in DOMAIN runs :
          /\ runs[i].poster_id = None_
          /\ runs' = [runs EXCEPT ![i].poster_id =
                         PosterIdOf(run_input.path, run_input.company_name, runs[i].hash)]
    /\ UNCHANGED <<now, cleanVars, enriched, dateVars, storeVars, trackVars, batchVars,
                   extractVars, fetchVars, run_input, mainVars,
                   searchVars>>

NextRuns == extract_poster_id

SpecRuns == InitRuns /\ [][NextRuns]_vars

(***************************************************************************)
(* main: from the command line and the environment to the kind of run      *)
(***************************************************************************)
\* DEFAULT_CONFIG, the two search defaults
DefaultConfig ==
    [DEFAULT_LOCATION |-> Str("Italy"),
     DEFAULT_KEYWORDS |->
        Str("front end developer OR angular developer OR react developer")]

\* load_config(): a variable of the environment, when set, replaces the default
LoadConfig(environ) ==
    [key \in DOMAIN DefaultConfig |->
        IF environ[key] # Absent THEN environ[key] ELSE DefaultConfig[key]]

\* parser.parse_args(): an option that is not on the command line takes its
\* default from the configuration
ParseArgs(argv, config) ==
    [url |-> argv.url,
     keywords |-> IF argv.keywords # Absent THEN argv.keywords ELSE config.DEFAULT_KEYWORDS,
     location |-> IF argv.location # Absent THEN argv.location ELSE config.DEFAULT_LOCATION]

\* urlencode(params, quote_via=quote) on the characters the inputs have
RECURSIVE Quote(_, _)
Quote(s, i) ==
    IF i > Len(s) THEN ""
    ELSE (CASE Char(s, i) = " " -> "%20"
            [] Char(s, i) = "/" -> "%2F"
            [] Char(s, i) = "=" -> "%3D"
            [] Char(s, i) = ":" -> "%3A"
            [] OTHER -> Char(s, i)) \o Quote(s, i + 1)

\* build_search_url(keywords, location) with no filter and use_guest_api False
BuildSearchUrl(keywords_, location) ==
    "https://www.linkedin.com/jobs/search?keywords=" \o Quote(keywords_, 1)
    \o "&location=" \o Quote(location, 1)
    \o "&trk=public_jobs_jobs-search-bar_search-submit&position=1&pageNum=0"

\* the branch main takes with the parsed arguments
MainMode(args) ==
    LET url == IF Truthy(args.keywords) /\ Truthy(args.location)
               THEN Str(BuildSearchUrl(args.keywords.v, args.location.v))
               ELSE args.url
    IN  IF ~Truthy(url) THEN "exit 1"
        ELSE IF Contains(url.v, "/jobs/view/") \/ Contains(url.v, "currentJobId=")
        THEN "single"
        ELSE "search"

\* the positional url of the command line, None without one
UrlArguments ==
    {None_, Str("https://www.linkedin.com/jobs/view/123/"),
     Str("https://www.linkedin.com/jobs/search/?currentJobId=123&keywords=angular"),
     Str("https://www.linkedin.com/jobs/search/?keywords=angular")}

\* the command lines: Absent for an option that is not given
CommandLines ==
    [url : UrlArguments,
     keywords : {Absent, Str(""), Str("angular"), Str("currentJobId=1")},
     location : {Absent, Str(""), Str("Milan")}]

\* the environments: Absent for a variable that is not set
Environments ==
    [DEFAULT_KEYWORDS : {Absent, Str(""), Str("react")},
     DEFAULT_LOCATION : {Absent, Str(""), Str("Rome")}]

InitMain ==
    /\ main_input \in [argv : CommandLines, environ : Environments]
    /\ main_mode = "not run"
    /\ RunsIdle
    /\ SearchIdle
    /\ now = EnrichNow
    /\ job_data = NoJob
    /\ job_files = <<>>
    /\ output_json = <<>>
    /\ jobs_index = NoIndex
    /\ tracker_ops = 0
    /\ pc = "idle"
    /\ calls = <<>>
    /\ BatchIdle
    /\ ExtractIdle
    /\ FetchIdle
    /\ enriched = <<>>
    /\ clean_result = NotRun
    /\ valid_result = "not run"
    /\ posted_text = ""
    /\ date_result = NotRun

\* main up to the choice between a single posting, a search and the exit
main ==
    /\ main_input # <<>>
    /\ main_mode = "not run"
    /\ main_mode' = MainMode(ParseArgs(main_input.argv, LoadConfig(main_input.environ)))
    /\ UNCHANGED <<now, cleanVars, enriched, dateVars, storeVars, trackVars, batchVars,
                   extractVars, fetchVars, runVars, main_input, searchVars>>

NextMain == main

SpecMain == InitMain /\ [][NextMain]_vars

(***************************************************************************)
(* extract_job_ids_from_search: the loop over the pages of a search        *)
(***************************************************************************)
MaxCards == 2

\* max_empty_pages of extract_job_ids_from_search
max_empty_pages == 3

\* A card of a result page, a div.base-search-card: urn is the id at the end
\* of its data-entity-urn, link the id extract_job_id_from_url finds in its
\* /jobs/view/ link ("" when there is none), base_card whether the div also
\* has the class base-card.  The guest endpoint wraps every card in an li.
Cards ==
    UNION {{[urn |-> id, link |-> id, base_card |-> TRUE],
            [urn |-> id, link |-> "", base_card |-> TRUE],
            [urn |-> "", link |-> id, base_card |-> FALSE]} : id \in JobIds}

\* What make_request_with_backoff gives for a page: nothing, or a text with
\* some cards, possibly none
Pages ==
    {[ok |-> FALSE, cards |-> <<>>]} \cup
    {[ok |-> TRUE, cards |-> cs] : cs \in UNION {[1..n -> Cards] : n \in 0..MaxCards}}

\* extract_job_ids_from_html(soup): the urn of each card, else its link
RECURSIVE ExtractJobIdsFromHtml(_, _)
ExtractJobIdsFromHtml(cards, i) ==
    IF i > Len(cards) THEN <<>>
    ELSE (IF cards[i].urn # "" THEN <<cards[i].urn>>
          ELSE IF cards[i].link # "" THEN <<cards[i].link>>
          ELSE <<>>) \o ExtractJobIdsFromHtml(cards, i + 1)

\* the for loop over the ids of a page, from the i-th one: an id that is not
\* in the list yet is appended and counted, and the loop breaks once the
\* count reaches max_jobs
RECURSIVE AppendNewIds(_, _, _, _)
AppendNewIds(st, ids, i, max_jobs) ==
    IF i > Len(ids) THEN st
    ELSE IF ids[i] # "" /\ ids[i] \notin Range(st.job_ids)
    THEN LET st2 == [job_ids |-> Append(st.job_ids, ids[i]),
                     jobs_found |-> st.jobs_found + 1]
         IN  IF st2.jobs_found >= max_jobs THEN st2
             ELSE AppendNewIds(st2, ids, i + 1, max_jobs)
    ELSE AppendNewIds(st, ids, i + 1, max_jobs)

\* the elements the older selectors find: every li of the guest endpoint,
\* the div.base-card of a regular search
RECURSIVE JobItems(_, _, _)
JobItems(cards, i, is_guest_api) ==
    IF i > Len(cards) THEN <<>>
    ELSE (IF is_guest_api \/ cards[i].base_card THEN <<cards[i].link>> ELSE <<>>)
         \o JobItems(cards, i + 1, is_guest_api)

\* the count of empty pages that is never raised by a page of known ids
EmptyPagesAfter_NeverCounted(count, new_ids_found) ==
    IF new_ids_found = 0 THEN count ELSE 0

\* consecutive_empty_pages after a page that was fetched: one more when the
\* page added no id, 0 when it added one
EmptyPagesAfter(count, new_ids_found) ==
    IF new_ids_found = 0 THEN count + 1 ELSE 0

InitSearch ==
    /\ search_input \in [max_jobs : 0..MaxJobs, is_guest_api : BOOLEAN]
    /\ page_num = 0
    /\ jobs_found = 0
    /\ consecutive_empty_pages = 0
    /\ job_ids = <<>>
    /\ pc = "searching"
    /\ RunsIdle
    /\ MainIdle
    /\ now = EnrichNow
    /\ job_data = NoJob
    /\ job_files = <<>>
    /\ output_json = <<>>
    /\ jobs_index = NoIndex
    /\ tracker_ops = 0
    /\ calls = <<>>
    /\ attempted = <<>>
    /\ all_jobs_data = <<>>
    /\ valid_jobs_data = <<>>
    /\ batch_return = NotRun
    /\ ExtractIdle
    /\ FetchIdle
    /\ enriched = <<>>
    /\ clean_result = NotRun
    /\ valid_result = "not run"
    /\ posted_text = ""
    /\ date_result = NotRun

\* the while loop goes on
LoopGoesOn ==
    /\ jobs_found < search_input.max_jobs
    /\ consecutive_empty_pages < max_empty_pages

\* one iteration of the while loop on the page the server sends
search_page ==
    /\ pc = "searching"
    /\ LoopGoesOn
    /\ \E page \in Pages :
          IF ~page.ok
          THEN /\ consecutive_empty_pages' = consecutive_empty_pages + 1
               /\ page_num' = page_num + 1
               /\ UNCHANGED <<job_ids, jobs_found, pc>>
          ELSE \E st \in {AppendNewIds([job_ids |-> job_ids, jobs_found |-> jobs_found],
                                       ExtractJobIdsFromHtml(page.cards, 1), 1,
                                       search_input.max_jobs)} :
               IF st.jobs_found = jobs_found
               THEN /\ consecutive_empty_pages' = EmptyPagesAfter(consecutive_empty_pages, 0)
                    /\ page_num' = page_num + 1
                    /\ pc' = IF consecutive_empty_pages' >= max_empty_pages
                             THEN "searched" ELSE "searching"
                    /\ UNCHANGED <<job_ids, jobs_found>>
               ELSE \E job_items \in {JobItems(page.cards, 1, search_input.is_guest_api)} :
                    IF job_items = <<>>
                    THEN /\ consecutive_empty_pages' =
                                EmptyPagesAfter(consecutive_empty_pages,
                                                st.jobs_found - jobs_found)
                         /\ job_ids' = st.job_ids
                         /\ jobs_found' = st.jobs_found
                         /\ pc' = "searched"
                         /\ UNCHANGED page_num
                    ELSE \E st2 \in {AppendNewIds(st, job_items, 1, search_input.max_jobs)} :
                         /\ consecutive_empty_pages' =
                                EmptyPagesAfter(consecutive_empty_pages,
                                                st.jobs_found - jobs_found)
                         /\ job_ids' = st2.job_ids
                         /\ jobs_found' = st2.jobs_found
                         /\ page_num' = page_num + 1
                         /\ pc' = "searching"
    /\ UNCHANGED <<now, cleanVars, enriched, dateVars, job_files, output_json, jobs_index,
                   tracker_ops, trackVars, attempted, all_jobs_data, valid_jobs_data,
                   batch_return, extractVars, fetchVars, runVars, mainVars, search_input>>

\* the loop ends at its head and the list is returned
search_return ==
    /\ pc = "searching"
    /\ ~LoopGoesOn
    /\ pc' = "searched"
    /\ UNCHANGED <<now, cleanVars, enriched, dateVars, job_files, output_json, jobs_index,
                   tracker_ops, trackVars, batchVars, extractVars, fetchVars, elseVars>>

NextSearch == search_page \/ search_return

SpecSearch == InitSearch /\ [][NextSearch]_vars

\* every iteration ends and the next one starts
SpecSearchLive == SpecSearch /\ WF_vars(NextSearch)

(***************************************************************************)
(* The tracking commands run again and again on one job file, the clock    *)
(* moving on between them                                                  *)
(***************************************************************************)
MaxCalls == 3
MaxDays == 1

\* the record update_job_application_status writes back into the job file:
\* every key of status_update that the Application has is given its value
UpdateJobApplicationStatus(job_data_, status_update) ==
    LET job == IF ~Has(job_data_, "Application") THEN EnrichJobDataForApplication(job_data_)
               ELSE ReturnedJob(job_data_)
        app == job.value["Application"].v
        updated == [key \in DOMAIN app |->
                       IF key \in DOMAIN status_update THEN status_update[key] ELSE app[key]]
    IN  IF job.raised THEN job ELSE ReturnedJob(Put(job.value, "Application", Dict(updated)))

\* the job file of the posting 123 as a run of main with individual files
\* leaves it
TrackedFiles ==
    ExportIndividualJobFiles(
        <<EnrichedOrRaised(ValidatedOrCleaned(
              CHOOSE raw \in Extracted("https://www.linkedin.com/jobs/view/123", EnrichNow) : TRUE,
              EnrichNow)).value>>,
        <<>>).files

\* --status and --notes of the update command
TrackUpdates ==
    {<<"Not Applied", None_>>, <<"Applied", None_>>, <<"Screening", Str("called")>>,
     <<"Interview", None_>>, <<"Offer", None_>>, <<"Rejected", Str("called")>>,
     <<"Withdrawn", None_>>}

\* the status_update dictionaries handed to update_job_application_status
FieldUpdates ==
    {("Notes" :> Str("phone screen went well")),
     ("Priority" :> Str("High") @@ "Salary" :> Str("50k"))}

NoUpdate == <<>>

Call(op, new_status, notes, status_update) ==
    [op |-> op, new_status |-> new_status, notes |-> notes, status_update |-> status_update]

InitTrack ==
    /\ now = EnrichNow
    /\ job_files = TrackedFiles
    /\ calls = <<>>
    /\ BatchIdle
    /\ ElseIdle
    /\ ExtractIdle
    /\ FetchIdle
    /\ output_json = <<>>
    /\ jobs_index = NoIndex
    /\ tracker_ops = 0
    /\ pc = "idle"
    /\ job_data = NoJob
    /\ enriched = <<>>
    /\ clean_result = NotRun
    /\ valid_result = "not run"
    /\ posted_text = ""
    /\ date_result = NotRun

\* a day goes by between two commands
tick ==
    /\ now.ord < EnrichNow.ord + MaxDays
    /\ now' = [ord |-> now.ord + 1, sec |-> now.sec]
    /\ UNCHANGED <<job_data, clean_result, valid_result, enriched, dateVars, storeVars,
                   trackVars, otherVars>>

\* the update command: update_application_status(job_file, status, notes, None)
update_command ==
    /\ Len(calls) < MaxCalls
    /\ \E job_file \in DOMAIN job_files : \E update \in TrackUpdates :
       \E r \in {UpdateApplicationStatus(job_files[job_file], update[1], update[2],
                                         None_, now)} :
          /\ ~r.raised
          /\ job_files' = [job_files EXCEPT ![job_file] = r.value]
          /\ jobs_index' = IF jobs_index.exists THEN UpdateIndexForJob(jobs_index, r.value)
                           ELSE jobs_index
          /\ calls' = Append(calls, Call("update_application_status", update[1], update[2],
                                         NoUpdate))
    /\ UNCHANGED <<now, job_data, clean_result, valid_result, enriched, dateVars,
                   output_json, tracker_ops, pc, otherVars>>

\* the reminder command: set_reminder_for_followup(job_file, None, 7)
reminder_command ==
    /\ Len(calls) < MaxCalls
    /\ \E job_file \in DOMAIN job_files :
       \E r \in {SetReminderForFollowup(job_files[job_file], None_, DaysFromNow, now)} :
          /\ ~r.raised
          /\ job_files' = [job_files EXCEPT ![job_file] = r.value]
    /\ calls' = Append(calls, Call("set_reminder_for_followup", "", None_, NoUpdate))
    /\ UNCHANGED <<now, job_data, clean_result, valid_result, enriched, dateVars,
                   output_json, jobs_index, tracker_ops, pc, otherVars>>

update_job_application_status ==
    /\ Len(calls) < MaxCalls
    /\ \E job_file \in DOMAIN job_files : \E status_update \in FieldUpdates :
       \E r \in {UpdateJobApplicationStatus(job_files[job_file], status_update)} :
          /\ ~r.raised
          /\ job_files' = [job_files EXCEPT ![job_file] = r.value]
          /\ jobs_index' = IF jobs_index.exists THEN UpdateIndexForJob(jobs_index, r.value)
                           ELSE jobs_index
          /\ calls' = Append(calls, Call("update_job_application_status", "", None_,
                                         status_update))
    /\ UNCHANGED <<now, job_data, clean_result, valid_result, enriched, dateVars,
                   output_json, tracker_ops, pc, otherVars>>

NextTrack ==
    \/ tick
    \/ update_command
    \/ reminder_command
    \/ update_job_application_status

SpecTrack == InitTrack /\ [][NextTrack]_vars

(***************************************************************************)
(* Claims about the date normalizer (under SpecDate)                       *)
(***************************************************************************)
DateDone == date_result # NotRun
DateText == Lower(CleanText(posted_text))

\* C3: for every input text parse_posted_date returns a non-empty valid
\* ISO-8601 timestamp and never raises.
C3_NeverFails ==
    DateDone => ~date_result.raised /\ date_result.value # "" /\ FromIsoFormatOk(date_result.value)

\* A decision list: the first rule of `order` whose pattern the text matches
RuleMatches(rule, t) ==
    CASE rule = "days" -> AgoMatches(t, "day") # {}
      [] rule = "weeks" -> AgoMatches(t, "week") # {}
      [] rule = "months" -> AgoMatches(t, "month") # {}
      [] rule = "today" -> HasWord(t, "today") \/ HasWord(t, "oggi")
      [] rule = "just now" -> HasWord(t, "just now") \/ HasWord(t, "appena")
      [] rule = "now keywords" -> \/ HasWord(t, "today") \/ HasWord(t, "oggi")
                                  \/ HasWord(t, "just now") \/ HasWord(t, "appena")
      [] rule = "yesterday" -> HasWord(t, "yesterday") \/ HasWord(t, "ieri")
      [] rule = "date, month in table" ->
             /\ DateMatches(t) # {}
             /\ InMonthTable(DateGroups(t).month)
             /\ ValidDate(ToInt(DateGroups(t).year), MonthOf(DateGroups(t).month),
                          ToInt(DateGroups(t).day))
      [] rule = "date, any month token" ->
             /\ DateMatches(t) # {}
             /\ ValidDate(ToInt(DateGroups(t).year),
                          IF InMonthTable(DateGroups(t).month)
                          THEN MonthOf(DateGroups(t).month) ELSE 1,
                          ToInt(DateGroups(t).day))

FirstMatch(order, t) ==
    LET S == {k \in 1..Len(order) : RuleMatches(order[k], t)}
    IN  IF S = {} THEN "none" ELSE order[Min(S)]

\* the midnight of the date the text names, an unlisted month token read as January
NamedDate(t) ==
    LET g == DateGroups(t)
    IN  [ord |-> Ymd2Ord(ToInt(g.year),
                         IF InMonthTable(g.month) THEN MonthOf(g.month) ELSE 1,
                         ToInt(g.day)),
         sec |-> 0]

\* what a rule yields: now minus so many days, or the named date at midnight;
\* a date before year 1 is the OverflowError of C3
RuleOutcome(rule, t, n) ==
    CASE rule = "days" -> MinusDaysIso(n, AgoNumber(t, "day"))
      [] rule = "weeks" -> MinusIso(n, AgoNumber(t, "week"), 7)
      [] rule = "months" -> MinusIso(n, AgoNumber(t, "month"), 30)
      [] rule \in {"today", "just now", "now keywords"} -> MinusDaysIso(n, 0)
      [] rule = "yesterday" -> MinusDaysIso(n, 1)
      [] rule \in {"date, month in table", "date, any month token"} ->
             Returned(IsoFormat(NamedDate(t)))
      [] rule = "none" -> MinusDaysIso(n, 30)

ClaimedOrder == <<"days", "weeks", "months", "now keywords", "yesterday", "date, month in table">>
CodeOrder == <<"days", "weeks", "months", "today", "yesterday", "just now", "date, any month token">>

C5_RelativeOffsets ==
    LET t == DateText
        rule == FirstMatch(<<"days", "weeks", "months">>, t)
        N == CASE rule = "days" -> AgoNumber(t, "day")
               [] rule = "weeks" -> AgoNumber(t, "week")
               [] rule = "months" -> AgoNumber(t, "month")
        unit == CASE rule = "days" -> 1 [] rule = "weeks" -> 7 [] rule = "months" -> 30
    IN  (DateDone /\ rule # "none") =>
            /\ ~date_result.raised
            /\ FromIsoFormatOk(date_result.value)
            /\ N < HugeInt \div unit
            /\ date_result.value = IsoFormat([ord |-> now.ord - unit * N, sec |-> now.sec])


(***************************************************************************)
(* Claims about the schema normalizer                                      *)
(***************************************************************************)
CleanDone == clean_result.exc # "not run"

\* C1: whatever subset of the required fields is missing, null or empty in
\* the raw record, clean_and_validate_job_data returns a record in which
\* every required field is non-null and non-empty.
C1_RequiredFieldsClosed ==
    CleanDone =>
        /\ ~clean_result.raised
        /\ \A f \in Range(RequiredFields) :
              /\ Has(clean_result.value, f)
              /\ clean_result.value[f] # None_
              /\ clean_result.value[f] # Str("")

\* C2: after clean_and_validate_job_data each of Skill, Insight and
\* Specialties is null or a non-empty list, never an empty list.
C2_ArraysNullOrNonEmpty ==
    (CleanDone /\ ~clean_result.raised) =>
        \A f \in Range(ArrayFields) :
            \/ Get(clean_result.value, f) = None_
            \/ IsList(clean_result.value[f]) /\ clean_result.value[f].v # <<>>


(***************************************************************************)
(* Claims about the enricher                                               *)
(***************************************************************************)
\* the lowercased title and description of the record handed to the enricher
InputTitle == Lower(GetOr(job_data, "Title", Str("")).v)
InputDescription == Lower(GetOr(job_data, "Description", Str("")).v)
InTitle(title) == {k \in Range(keywords) : Contains(title, k)}
InDescriptionOnly(title, description) ==
    {k \in Range(keywords) : ~Contains(title, k) /\ Contains(description, k)}
RelevanceAt(i) == enriched[i].value["Relevance"].v
ApplicationAt(i) == enriched[i].value["Application"].v

\* C6: the Score is 3 times the number of keywords in the lowercased title
\* plus the number of keywords in the lowercased description and not in the
\* title, and Keywords lists exactly the matched keywords, once each, in
\* keyword-list order.
C6_ScoreAndKeywords ==
    enriched # <<>> =>
        LET inTitle == InTitle(InputTitle)
            inDescriptionOnly == InDescriptionOnly(InputTitle, InputDescription)
            score == IntVal(3 * Cardinality(inTitle) + Cardinality(inDescriptionOnly))
            matched == List(SelectSeq(keywords, LAMBDA k : k \in inTitle \cup inDescriptionOnly))
        IN  \A i \in 1..Len(enriched) :
                /\ ~enriched[i].raised
                /\ RelevanceAt(i)["Score"] = score
                /\ RelevanceAt(i)["Keywords"] = matched

\* C6: a keyword of the title is in the description too, next to a keyword the
\* title does not have, and the record has been enriched.
C6_Witness ==
    /\ enriched # <<>>
    /\ \E k \in InTitle(InputTitle) : Contains(InputDescription, k)
    /\ InDescriptionOnly(InputTitle, InputDescription) # {}
    /\ RelevanceAt(1)["Score"].v
          = 3 * Cardinality(InTitle(InputTitle))
            + Cardinality(InDescriptionOnly(InputTitle, InputDescription))

\* the flag of a technology tells whether its name occurs in either text
FlagTells(i, flag, name, title, description) ==
    RelevanceAt(i)[flag] = Bool(Contains(title, name) \/ Contains(description, name))

\* C7: each of 'Angular Mentioned', 'React Mentioned' and 'TypeScript
\* Mentioned' is true exactly when the technology's name occurs, in any
\* letter case, in the title or in the description.
C7_FlagsEitherField ==
    enriched # <<>> =>
        LET title == InputTitle
            description == InputDescription
        IN  \A i \in 1..Len(enriched) :
                /\ FlagTells(i, "Angular Mentioned", "angular", title, description)
                /\ FlagTells(i, "React Mentioned", "react", title, description)
                /\ FlagTells(i, "TypeScript Mentioned", "typescript", title, description)

\* C7: the title gave the score a keyword, the description alone names
\* TypeScript, and the flag is set.
C7_Witness ==
    /\ enriched # <<>>
    /\ InTitle(InputTitle) # {}
    /\ "typescript" \in InDescriptionOnly(InputTitle, InputDescription)
    /\ RelevanceAt(1)["TypeScript Mentioned"] = Bool(TRUE)
    /\ RelevanceAt(1)["React Mentioned"] = Bool(FALSE)

\* C8: every enrichment of a record, the first and the one of its own result,
\* whatever Relevance the record carried, gives the Relevance of a single
\* enrichment of the same title and description.
C8_RelevanceRecomputed ==
    enriched # <<>> =>
        LET single == EnrichJobDataForApplication(
                          Put(Put(BaseJob, "Title", job_data["Title"]),
                              "Description", job_data["Description"])).value["Relevance"]
        IN  \A i \in 1..Len(enriched) : enriched[i].value["Relevance"] = single

\* C8: a record that carried another Relevance has been enriched twice, and
\* its texts have keywords.
C8_Witness ==
    /\ Len(enriched) = 2
    /\ job_data["Relevance"] = Dict(StaleRelevance)
    /\ RelevanceAt(2)["Score"].v > 0
    /\ RelevanceAt(2) # StaleRelevance

\* C9: the enricher always attaches an Application with Status 'Not Applied',
\* Priority and Interest Level 'Medium', every date null, the notes empty and
\* every other field null, whatever Application the record held.
C9_ApplicationDefaults ==
    \A i \in 1..Len(enriched) :
        /\ ~enriched[i].raised
        /\ enriched[i].value["Application"].t = "dict"
        /\ DOMAIN ApplicationAt(i) = ApplicationKeys
        /\ ApplicationAt(i)["Status"] = Str("Not Applied")
        /\ ApplicationAt(i)["Priority"] = Str("Medium")
        /\ ApplicationAt(i)["Interest Level"] = Str("Medium")
        /\ \A k \in {"Applied Date", "Response Date", "Interview Date", "Offer Date",
                     "Rejection Date", "Follow Up Date"} : ApplicationAt(i)[k] = None_
        /\ ApplicationAt(i)["Notes"] \in {None_, Str("")}
        /\ \A k \in {"Cover Letter", "Salary Range", "Skills Match", "Location Match"} :
              ApplicationAt(i)[k] = None_

\* C9: a record whose Application holds tracked progress has been enriched.
C9_Witness ==
    /\ enriched # <<>>
    /\ job_data["Application"] = Dict(TrackedApplication)
    /\ ApplicationAt(1)["Status"] = Str("Not Applied")


(***************************************************************************)
(* Claims about the persisted Application                                  *)
(***************************************************************************)
\* every Application a job file holds is in that file, unchanged, after the step
ApplicationsKept ==
    \A f \in DOMAIN job_files :
        Has(job_files[f], "Application") =>
            /\ f \in DOMAIN job_files'
            /\ job_files'[f]["Application"] = job_files[f]["Application"]

\* C10: once a job file holds an Application, only a tracking operation on
\* the file changes it: no step of scraping the posting again or of
\* export_individual_job_files / direct_export_from_json into the directory
\* resets or overwrites it.
C10_ApplicationOnlyTracked ==
    [][tracker_ops' = tracker_ops => ApplicationsKept]_vars


(***************************************************************************)
(* Claims about the tracking commands (under SpecTrack)                    *)
(***************************************************************************)
\* the step is a call of op on the job file
Called(op) == Len(calls') = Len(calls) + 1 /\ calls'[Len(calls')].op = op
\* the Application in the job file of the directory
TrackedApp == job_files[CHOOSE job_file \in DOMAIN job_files : TRUE]["Application"].v
DateKeys == {"Applied Date", "Response Date", "Interview Date", "Offer Date",
             "Rejection Date", "Follow Up Date"}

\* C11: a call of update_application_status without applied_date stamps
\* Applied Date with the current time when the new status is 'Applied', the
\* Applied Date is unset and the status was 'Not Applied'; in every other
\* case the Applied Date keeps its value.
C11_AppliedDateStampedOnce ==
    [][Called("update_application_status") =>
          IF /\ calls'[Len(calls')].new_status = "Applied"
             /\ ~Truthy(TrackedApp["Applied Date"])
             /\ TrackedApp["Status"] = Str("Not Applied")
          THEN TrackedApp'["Applied Date"] = Str(IsoFormat(now))
          ELSE TrackedApp'["Applied Date"] = TrackedApp["Applied Date"]]_vars

\* the date field that belongs to a status
DateFieldOf(new_status) ==
    CASE new_status = "Screening" -> "Response Date"
      [] new_status = "Interview" -> "Interview Date"
      [] new_status = "Offer" -> "Offer Date"
      [] new_status = "Rejected" -> "Rejection Date"

\* C12: every call of update_application_status with new status Screening,
\* Interview, Offer or Rejected sets the date field of that status to the
\* current time, whatever the status and the field were before, and changes
\* no other date field of the Application.
C12_StatusDateStamped ==
    [][(/\ Called("update_application_status")
        /\ calls'[Len(calls')].new_status \in {"Screening", "Interview", "Offer", "Rejected"}) =>
          LET field == DateFieldOf(calls'[Len(calls')].new_status)
          IN  /\ TrackedApp'[field] = Str(IsoFormat(now))
              /\ \A k \in DateKeys \ {field} : TrackedApp'[k] = TrackedApp[k]]_vars

\* C12: the status was set to Rejected on one day and again on the next, and
\* the Rejection Date is the time of the second call.
C12_Witness ==
    /\ Len(calls) = 2
    /\ calls[1].new_status = "Rejected"
    /\ calls[2].new_status = "Rejected"
    /\ now.ord = EnrichNow.ord + 1
    /\ TrackedApp["Rejection Date"] = Str(IsoFormat(now))
    /\ TrackedApp["Notes"]
          = Str(DayOf(EnrichNow) \o ": called\n\n" \o DayOf(now) \o ": called")

\* the Notes text of the job file, "" while there is none
NotesText == IF Truthy(TrackedApp["Notes"]) THEN TrackedApp["Notes"].v ELSE ""

\* C13: Notes is an append-only log: whatever tracking operation runs
\* (update_application_status, set_reminder_for_followup,
\* update_job_application_status), the Notes held before it is a prefix of
\* the Notes after it, and a note added to existing Notes follows a blank
\* line as '<current date>: <note>'.
C13_NotesAppendOnly ==
    [][Len(calls') = Len(calls) + 1 =>
          /\ Len(NotesText') >= Len(NotesText)
          /\ SubSeq(NotesText', 1, Len(NotesText)) = NotesText
          /\ (Truthy(calls'[Len(calls')].notes) /\ NotesText # "") =>
                NotesText' = NotesText \o "\n\n" \o DayOf(now) \o ": "
                             \o calls'[Len(calls')].notes.v]_vars


(***************************************************************************)
(* Claims about the validator (under SpecClean)                            *)
(***************************************************************************)
ValidDone == valid_result # "not run"

\* C14: validate_job_data returns a boolean for every record; it returns
\* False whenever a required field is missing, null or empty; and whether
\* Company Description is there does not change the result: a record missing
\* only Company Description validates.
C14_ValidateTotal ==
    ValidDone =>
        /\ valid_result \in {"True", "False"}
        /\ (\E f \in Range(RequiredFields) :
               ~Has(job_data, f) \/ job_data[f] = None_ \/ job_data[f] = Str("")) =>
              valid_result = "False"
        /\ (\E x \in {Absent, None_, Str("Acme makes anvils.")} :
               job_data = Put(BaseJob, "Company Description", x)) =>
              valid_result = "True"

\* C14: a record that has everything but Company Description was validated, and
\* passed.
C14_Witness ==
    /\ ValidDone
    /\ ~Has(job_data, "Company Description")
    /\ \A f \in Range(RequiredFields) : Truthy(Get(job_data, f))
    /\ valid_result = "True"

(***************************************************************************)
(* Claims about process_search_results                                     *)
(***************************************************************************)
\* the records of jobs that pass validate_job_data, in their order
ValidOnes(jobs) == SelectSeq(jobs, ValidateJobData)

\* process_search_results has returned in this step
BatchReturns == batch_return' # batch_return /\ ~batch_return'.raised

C16_BatchNeverAborted == pc \in {"returned", "exited"} => attempted = job_ids

\* the posting ids of the records of jobs
IdsOf(jobs) == [i \in DOMAIN jobs |-> ExtractJobIdFromUrl(jobs[i]["Detail URL"].v)]

\* a is what is left of b after dropping some of its elements
RECURSIVE IsSubSeq(_, _)
IsSubSeq(a, b) ==
    IF a = <<>> THEN TRUE
    ELSE IF b = <<>> THEN FALSE
    ELSE IF Head(a) = Head(b) THEN IsSubSeq(Tail(a), Tail(b))
    ELSE IsSubSeq(a, Tail(b))

\* C19: process_search_results preserves the discovery order: the ids scraped
\* so far are the first ids of job_ids, each once and in list order, and the
\* ids of all_jobs_data and of valid_jobs_data are sub-sequences of job_ids.
C19_DiscoveryOrder ==
    /\ Len(attempted) <= Len(job_ids)
    /\ attempted = SubSeq(job_ids, 1, Len(attempted))
    /\ \A i, j \in DOMAIN attempted : i # j => attempted[i] # attempted[j]
    /\ IsSubSeq(IdsOf(all_jobs_data), attempted)
    /\ IsSubSeq(IdsOf(valid_jobs_data), IdsOf(all_jobs_data))
    /\ (pc = "returned" /\ batch_return.value.success) =>
          IsSubSeq(IdsOf(output_json), job_ids)

\* C19 witness: the ids were found in the order 456, 123; both were scraped,
\* the first gave no record and the second is the only record of the output.
C19_Witness ==
    /\ job_ids = <<"456", "123">>
    /\ attempted = job_ids
    /\ pc = "returned"
    /\ IdsOf(all_jobs_data) = <<"123">>
    /\ output_json = valid_jobs_data
    /\ IdsOf(output_json) = <<"123">>

(***************************************************************************)
(* Claims about extract_data_from_api_response                             *)
(***************************************************************************)
ExtractDone == extract_result # NotRun

\* C17: the extractor never raises because a field is missing: for a payload
\* lacking any of its keys it returns a record, in which the Title, the
\* Description and the Company Name are null or empty when the payload does
\* not have them.
C17_ExtractionNeverRaises ==
    ExtractDone =>
        /\ ~extract_result.raised
        /\ payload["title"] = Absent => ~Truthy(extract_result.value["Title"])
        /\ payload["description"] = Absent => ~Truthy(extract_result.value["Description"])
        /\ payload["hiringOrganization"] = Absent =>
              ~Truthy(extract_result.value["Company Name"])

(***************************************************************************)
(* Claims about make_request_with_backoff                                  *)
(***************************************************************************)
FetchDone == fetch_result # NotRun

\* the places of the 200 responses among the replies
Successes == {i \in DOMAIN replies : replies[i].status_code = 200}

\* the bounded retry protocol at one moment of the call
RetryProtocol ==
    /\ Len(replies) <= max_retries
    /\ \A i \in DOMAIN replies : replies[i].status_code \in {200, 403} => i = Len(replies)
    /\ FetchDone =>
          /\ ~fetch_result.raised
          /\ IF Successes # {} THEN fetch_result.value = Str(replies[Min(Successes)].text)
             ELSE fetch_result.value = None_
          /\ (replies # <<>> /\ replies[Len(replies)].status_code \in {0, 429, 500}) =>
                Len(replies) = max_retries
    /\ (replies # <<>> /\ replies[Len(replies)].status_code \in {200, 403}) => FetchDone

\* C18: make_request_with_backoff makes at most max_retries requests, returns
\* the body of the first 200 response, makes another attempt after a timeout,
\* a 429 or a 5xx while attempts remain, makes no request after a 403,
\* returns None when no 200 came, and always returns.
C18_BoundedRetry == []RetryProtocol /\ <>FetchDone

\* C18 witness: with max_retries = 3 a timeout and a 429 were answered by new
\* attempts and the third request got the 200 whose body is returned.
C18_Witness ==
    /\ max_retries = 3
    /\ Len(replies) = 3
    /\ replies[1] = Timeout
    /\ replies[2].status_code = 429
    /\ replies[3].status_code = 200
    /\ fetch_result = Returned(Str("<html>Angular Developer</html>"))

(***************************************************************************)
(* Claims about the job id                                                 *)
(***************************************************************************)
\* the job files that hold a record of this Detail URL
FilesOf(detail_url) ==
    {name \in DOMAIN job_files : job_files[name]["Detail URL"] = Str(detail_url)}

\* the places of the index entries keyed by job_id
EntriesOf(job_id) ==
    {i \in DOMAIN jobs_index.entries : jobs_index.entries[i]["JobId"] = Str(job_id)}

\* C20: the job id is one function of Detail URL for every component: for a
\* record scraped from .../jobs/view/<id>/ the exporters derive the id that
\* extract_job_id_from_url gives, so that after the export every exported
\* record has exactly one job file and one index entry keyed by that id.
C20_OneJobId ==
    pc = "exported" =>
        \A i \in DOMAIN output_json :
            \E detail_url \in {output_json[i]["Detail URL"].v} :
                /\ UrlTail(detail_url) = ExtractJobIdFromUrl(detail_url)
                /\ Cardinality(FilesOf(detail_url)) = 1
                /\ Cardinality(EntriesOf(ExtractJobIdFromUrl(detail_url))) = 1

(***************************************************************************)
(* Claims about the dates of a record                                      *)
(***************************************************************************)
\* new is what the claim allows for a date field that held old: a missing
\* one is filled with filler, one that is there is kept (an empty string may
\* count as either)
FilledOrKept(old, new, filler) ==
    IF old \in {Absent, None_} THEN new = Str(filler)
    ELSE IF old = Str("") THEN new \in {old, Str(filler)}
    ELSE new = old

\* C21: Created At and ScrapedAt are never null after normalization; a
\* component that fills in a missing Created At (clean_and_validate_job_data,
\* export_individual_job_files, direct_export_from_json) gives it the time 30
\* days before now, a missing ScrapedAt gets now, and a date that is there is
\* never overwritten.
C21_DatesFilledNotOverwritten ==
    /\ (CleanDone /\ ~clean_result.raised) =>
          /\ Get(clean_result.value, "Created At") # None_
          /\ Get(clean_result.value, "ScrapedAt") # None_
          /\ FilledOrKept(job_data["Created At"], clean_result.value["Created At"],
                          MinusDaysIso(now, 30).value)
          /\ FilledOrKept(job_data["ScrapedAt"], clean_result.value["ScrapedAt"],
                          IsoFormat(now))
    /\ \A name \in DOMAIN job_files :
          /\ FilledOrKept(job_data["Created At"], job_files[name]["Created At"],
                          MinusDaysIso(now, 30).value)
          /\ job_files[name]["ScrapedAt"] = job_data["ScrapedAt"]

(***************************************************************************)
(* Claims about the defaults of clean_and_validate_job_data                *)
(***************************************************************************)
\* the fields the claim names a default for
DefaultedFields ==
    {"Title", "Description", "Location", "Company Name", "Poster Id", "Company Logo",
     "Company Apply Url", "Company Website"}

\* x is the default the claim names for the field f of the cleaned record
ClaimedDefault(f, x, cleaned) ==
    CASE f = "Title" -> x = Str("Untitled Job")
      [] f = "Description" -> x = Str("No description available")
      [] f = "Location" -> x = Str("Remote")
      [] f = "Company Name" -> x = Str("Unknown Company")
      [] f = "Poster Id" -> x = Str("000000")
      [] f = "Company Logo" -> IsStr(x) /\ x # Str("")
      [] f = "Company Apply Url" -> x = cleaned["Detail URL"]
      [] f = "Company Website" -> x = Str("https://www.linkedin.com/")

\* C22: clean_and_validate_job_data replaces a null or empty field by its
\* fixed default and leaves a non-empty one unchanged, for Title, Description,
\* Location, Company Name, Poster Id, Company Logo (a placeholder URL), Company
\* Apply Url (the Detail URL) and Company Website ('https://www.linkedin.com/').
C22_FixedDefaults ==
    (CleanDone /\ ~clean_result.raised) =>
        \A f \in DefaultedFields :
            IF Truthy(Get(job_data, f)) THEN clean_result.value[f] = job_data[f]
            ELSE ClaimedDefault(f, clean_result.value[f], clean_result.value)

(***************************************************************************)
(* Claims about the fallback Poster Id                                     *)
(***************************************************************************)
\* C23: the fallback Poster Id is deterministic: two runs of the program
\* that extract the same company name by the same path give the same Poster
\* Id, a decimal integer from 0 to 9999999.
C23_PosterIdDeterministic ==
    (runs # <<>> /\ \A i \in DOMAIN runs : runs[i].poster_id # None_) =>
        /\ runs[1].poster_id = runs[2].poster_id
        /\ \A i \in DOMAIN runs :
              /\ IsStr(runs[i].poster_id)
              /\ AllDigits(runs[i].poster_id.v)
              /\ ToInt(runs[i].poster_id.v) \in 0..9999999

(***************************************************************************)
(* Claims about the remote mark of the Location                            *)
(***************************************************************************)
\* the location text the extractor reads in the payload
LocationText ==
    LET address == payload["jobLocation"].v
        location_parts == SelectSeq(AddressKeys, LAMBDA k : address[k] # Absent)
    IN  Join([i \in 1..Len(location_parts) |-> address[location_parts[i]].v], ", ")

\* C24: after extraction the Location has the suffix ' (Remote)' exactly
\* when the extracted location text contains 'remote' or 'remoto', whatever
\* the case, and not yet the literal 'Remote'; the decision depends on the
\* location text alone.
C24_RemoteSuffixByLocation ==
    (/\ ExtractDone
     /\ ~extract_result.raised
     /\ payload["@type"] = Str("JobPosting")
     /\ payload["jobLocation"] # Absent) =>
        extract_result.value["Location"] =
            Str(IF /\ \E w \in {"remote", "remoto"} : Contains(Lower(LocationText), w)
                   /\ ~Contains(LocationText, "Remote")
                THEN LocationText \o " (Remote)" ELSE LocationText)

(***************************************************************************)
(* Claims about main                                                       *)
(***************************************************************************)
MainDone == main_mode # "not run"

\* the positional argument is the URL of a job posting
JobUrlGiven ==
    /\ main_input.argv.url # None_
    /\ \/ Contains(main_input.argv.url.v, "/jobs/view/")
       \/ Contains(main_input.argv.url.v, "currentJobId=")

\* C25: main accepts either kind of input: with the URL of a posting and
\* neither --keywords nor --location on the command line it scrapes that
\* posting, with keywords and a location it runs a search, and it exits with
\* the configuration error only when it has neither a URL nor both search
\* parameters.
C25_EitherInput ==
    MainDone =>
        LET argv == main_input.argv
            args == ParseArgs(argv, LoadConfig(main_input.environ))
        IN  /\ (JobUrlGiven /\ argv.keywords = Absent /\ argv.location = Absent) =>
                  main_mode = "single"
            /\ (Truthy(argv.keywords) /\ Truthy(argv.location)) => main_mode = "search"
            /\ main_mode = "exit 1" =>
                  (argv.url = None_ /\ ~(Truthy(args.keywords) /\ Truthy(args.location)))

(***************************************************************************)
(* Claims about the search loop                                            *)
(***************************************************************************)
NoDuplicates(ids) == \A i, j \in DOMAIN ids : i # j => ids[i] # ids[j]

\* C26: whatever pages the server sends, the list of extract_job_ids_from_search
\* has no id twice, is never longer than max_jobs, and after every iteration
\* jobs_found is the length of the list.
C26_ListWithinMaxJobs ==
    pc \in {"searching", "searched"} =>
        /\ NoDuplicates(job_ids)
        /\ Len(job_ids) <= search_input.max_jobs
        /\ jobs_found = Len(job_ids)

\* the search returned
Searched == pc = "searched"

BuiltFor(entry, job) == entry["DetailURL"] = job["Detail URL"]

\* the four fields of the entry are those of the job's Application
Projects(entry, job) ==
    /\ entry["Status"] = job["Application"].v["Status"]
    /\ entry["AppliedDate"] = job["Application"].v["Applied Date"]
    /\ entry["Priority"] = job["Application"].v["Priority"]
    /\ entry["InterestLevel"] = job["Application"].v["Interest Level"]

\* C29: the index stays a projection of the job files: when a status update
\* succeeds on a job file whose directory has a jobs_index.json with an entry
\* built for that job, that entry then has the Status, AppliedDate, Priority
\* and InterestLevel of the file's Application, and every other entry is as
\* it was.
C29_IndexProjection ==
    [][\A job_file \in DOMAIN job_files :
          (/\ tracker_ops' = tracker_ops + 1
           /\ jobs_index.exists
           /\ job_files'[job_file]["Application"].v["Status"]
                 # job_files[job_file]["Application"].v["Status"])
          => \A i \in DOMAIN jobs_index.entries :
                IF BuiltFor(jobs_index.entries[i], job_files[job_file])
                THEN Projects(jobs_index'.entries[i], job_files'[job_file])
                ELSE jobs_index'.entries[i] = jobs_index.entries[i]]_vars

(***************************************************************************)
(* Claims about cleaning twice                                             *)
(***************************************************************************)
\* C30: at a fixed now, clean_and_validate_job_data is idempotent: cleaning
\* the record it returned gives that record again.
C30_CleanIdempotent ==
    (clean_result # NotRun /\ ~clean_result.raised) =>
        CleanAndValidateJobData(clean_result.value, now) = clean_result

====
